---- MODULE Spec2Model ----
(***************************************************************************)
(* State-machine model of the stock watcher: the step-alert engine         *)
(* (processStockData), the premarket growth worker (createScanner), the    *)
(* lifecycles of the market worker (createMarketService) and the catalyst  *)
(* worker (createCatalystService), and the time-windowed orchestrator      *)
(* (createOrchestrator).                                                   *)
(*                                                                         *)
(* Percent changes are counted in half-percent units, so the default       *)
(* premarketAlertStep of 1.0 is Step = 2.  Float sizes are in millions of  *)
(* shares.                                                                 *)
(***************************************************************************)
EXTENDS Integers, FiniteSets, Sequences, TLC

\* ------------------------------------------------------------------ bounds
MaxVal == 3          \* largest premarket change a data source row carries
MaxOps == 2          \* asynchronous worker operations in flight at once
MaxTimers == 2       \* interval timers of one kind that exist at once
MaxRuns == 2         \* start() calls of one worker that pass its guard
MaxTicks == 2        \* orchestrator poll callbacks that exist at once
MaxFaults == 1       \* lifecycle methods that throw in one run
MaxMono == 4         \* largest change of a non-decreasing series of scans
MaxRows == 6         \* rows of one market fetch
MaxExponent == 9     \* traded values are powers of ten up to 10^9
MaxTime == 4         \* latest reading of the clock
MaxScans == 2        \* market scans in flight at once
MaxCatScans == 2     \* catalyst scans in flight at once
MaxStops == 2        \* orchestrator stop() calls awaiting their workers at once

\* ------------------------------------------------------- program constants
Step == 2            \* config.premarketAlertStep (1.0 percent)
FloatLimit == 15     \* isValidFloat: 15,000,000 shares
NoTimer == 0         \* scanTimer: null
DefaultCount == 1    \* createStockMessage's default for its count parameter
TOP_N == 5           \* createMarketService: entries kept of each ranked list
COOLDOWN_MS == 1     \* marketAlertCooldownMs (5 min), in clock units of 5 min
STALE_MS == 6        \* 30 * 60_000, in clock units
RVOL_PUMP_DELTA == 5 \* marketRvolPumpDelta
DUMP_THRESHOLD == -2 \* marketDumpThreshold, percent

Symbols == {"X", "Y"}
Values == 0..MaxVal
TimerIds == 1..MaxTimers

\* --------------------------------------------------------- data source rows
\* A raw field of a data source row: a number, null, or a non-numeric value.
Num(v) == [k |-> "num", v |-> v]
Null == [k |-> "null", v |-> 0]
Bad == [k |-> "str", v |-> 0]
NaN == [k |-> "nan", v |-> 0]

\* A raw row { s, d }.  s is "named" for a symbol that is a non-blank string (the
\* key the batch holds the row under), "blank" for a string of white space and
\* "missing" when the row has none; the others are the columns of d that
\* mapRow reads: d[1], d[2] and d[11].
Row(s, c, f, vol) == [s |-> s, change |-> c, float |-> f, volume |-> vol]

\* A row with a symbol and a volume.
RawRow(c, f) == Row("named", c, f, Num(1))

\* The rows the data source may return for one symbol.
RowChoices ==
    {RawRow(Num(v), Num(10)) : v \in Values}
        \cup {RawRow(Num(MaxVal), Num(20)), RawRow(Bad, Num(10))}

\* A batch: the rows of one fetch, keyed by symbol (a symbol occurs at most once).
Batches == UNION {[S -> RowChoices] : S \in SUBSET Symbols}

EmptyBatch == [s \in {} |-> RawRow(Null, Null)]

\* Number(d[i] || 0): null, undefined and NaN are falsy and become 0
ToNumber(raw) ==
    IF raw.k \in {"null", "nan"} THEN Num(0)
    ELSE IF raw.k = "str" THEN NaN
    ELSE raw

\* TvScanner.mapRow
MapRow(row) ==
    [symbol |-> row.s,
     premarket_change |-> ToNumber(row.change),
     premarket_volume |-> ToNumber(row.volume),
     float_shares_outstanding |-> ToNumber(row.float)]

\* typeof x === 'number' && !isNaN(x)
IsNumber(x) == x.k = "num"

\* validateStockData: the symbol is a string that is not blank, and each of
\* premarket_change, float_shares_outstanding and premarket_volume is a number
\* and not NaN
ValidateStockData(stock) ==
    /\ stock.symbol = "named"
    /\ IsNumber(stock.premarket_change)
    /\ IsNumber(stock.float_shares_outstanding)
    /\ IsNumber(stock.premarket_volume)

\* isValidFloat: float == null || float <= 15000000 (false for NaN)
IsValidFloat(stock) ==
    \/ stock.float_shares_outstanding.k = "null"
    \/ /\ stock.float_shares_outstanding.k = "num"
       /\ stock.float_shares_outstanding.v <= FloatLimit

\* The static gates of processStockData's loop.
PassesGates(stock) == ValidateStockData(stock) /\ IsValidFloat(stock)

\* The rows of RowChoices and rows with a field the data source left out
\* (null) or sent as NaN, with a volume that is not a number, or with a symbol
\* that is blank or missing.
MalformedRowChoices ==
    RowChoices \cup {RawRow(Null, Num(10)), RawRow(Num(MaxVal), Null),
                     RawRow(NaN, Num(10)), RawRow(Null, Null),
                     Row("named", Num(MaxVal), Num(10), Bad),
                     Row("blank", Num(MaxVal), Num(10), Num(1)),
                     Row("missing", Num(MaxVal), Num(10), Num(1))}

MalformedBatches == UNION {[S -> MalformedRowChoices] : S \in SUBSET Symbols}

\* ------------------------------------------------------- step-alert engine
\* const shouldAlert = prevChange === undefined || change >= prevChange + step
ShouldAlert(last, sym, change) ==
    sym \notin DOMAIN last \/ change >= last[sym] + Step

\* alertsToSend: the symbols of the batch that pass the gates and should alert
AlertsToSend(last, batch) ==
    {s \in DOMAIN batch :
        /\ PassesGates(MapRow(batch[s]))
        /\ ShouldAlert(last, s, MapRow(batch[s]).premarket_change.v)}

\* shouldSendNotifications
ShouldSendNotifications(isFirstScan, sendOnStartup, newStocksCount) ==
    newStocksCount > 0 /\ (sendOnStartup \/ ~isFirstScan)

\* updatedChanges.set(symbol, premarket_change) for every symbol of syms
SetChanges(last, batch, syms) ==
    [s \in DOMAIN last \cup syms |->
        IF s \in syms THEN MapRow(batch[s]).premarket_change.v ELSE last[s]]

\* a catch clause that also marks the worker stopped
FetchFailedStops(state) == [state EXCEPT !.isFirstScan = FALSE, !.isRunning = FALSE]

\* catch (error) { ...; return { ...state, isFirstScan: false }; }
FetchFailed(state) == [state EXCEPT !.isFirstScan = FALSE]

\* if (result.success) updatedChanges.set(...): the alerts whose sendMessage
\* returned success; a failed or throwing send records nothing
SendSucceeded(alerts, delivered) == alerts \cap delivered

\* undefined
Undefined == [k |-> "undefined", v |-> 0]

\* TvScanner.getStocks10, on the rows of the HTTP response: it resolves with
\* an object, return { data: rows, totalCount }
GetStocks10(rows) == [k |-> "object", data |-> rows]

\* Array.isArray(x)
IsArray(x) == x.k = "array"

\* x.length: the number of elements of an array, undefined on the object
\* getStocks10 builds, which has no such property
LengthOf(x) == IF IsArray(x) THEN Num(Cardinality(DOMAIN x.data)) ELSE Undefined

\* validateTradingViewResponse(data): data.data is an array and
\* data.totalCount is a number
ValidateTradingViewResponse(data) == IsArray(data.data) /\ data.totalCount.k = "num"

\* processStockData(threshold, state, telegramService, config).
\*   fetch     "ok" or "throw": whether TvScanner.getStocks10 resolves or rejects
\*   resolved  the value it resolves with (rawStocks)
\*   delivered the symbols whose sendMessage returns success (for the others
\*             it returns success = false or throws)
\* The result carries the returned state and the symbols sendMessage was
\* called for.  A response that fails validateTradingViewResponse throws inside
\* the try block and ends in the same catch clause as a rejected fetch.
ProcessStockData(state, sendOnStartup, fetch, resolved, delivered) ==
    LET batch == resolved.data
        alerts == AlertsToSend(state.lastReportedChanges, batch)
    IN  IF fetch = "throw"
        THEN [state |-> FetchFailed(state), sent |-> {}, ok |-> {}]
        ELSE IF ~ValidateTradingViewResponse(
                    [data |-> resolved, totalCount |-> LengthOf(resolved)])
        THEN [state |-> FetchFailed(state), sent |-> {}, ok |-> {}]
        ELSE IF DOMAIN batch = {}
        THEN [state |-> state, sent |-> {}, ok |-> {}]
        ELSE IF alerts = {}
        THEN [state |-> [state EXCEPT !.isFirstScan = FALSE], sent |-> {}, ok |-> {}]
        ELSE IF ~ShouldSendNotifications(state.isFirstScan, sendOnStartup, Cardinality(alerts))
        THEN [state |-> [state EXCEPT
                            !.lastReportedChanges = SetChanges(@, batch, alerts),
                            !.isFirstScan = FALSE],
              sent |-> {}, ok |-> {}]
        ELSE [state |-> [state EXCEPT
                            !.lastReportedChanges =
                                SetChanges(@, batch, SendSucceeded(alerts, delivered)),
                            !.isFirstScan = FALSE],
              sent |-> alerts, ok |-> alerts \cap delivered]

\* ------------------------------------------------------------------- state
VARIABLES
    sendOnStartup,  \* config.sendOnStartup, copied into the scanner's state
    g,              \* growth worker: the state held by its stateManager
    gLive,          \* growth worker: ids of the scan interval timers that are live
    gHist,          \* growth worker: what its lifecycle calls have done so far
    ops,            \* worker operations suspended at an await, by slot
    ev,             \* what the latest step did: its kind and what it sent
    alerted,        \* symbol -> change of its latest delivered notification
    dipped,         \* symbols seen below their alerted change since that alert
    m,              \* market worker: isRunning and its two timer handles
    mLive,          \* market worker: live scan timers and live dashboard timers
    mHist,          \* market worker: what its lifecycle calls have done so far
    phase,          \* the operating phase the time utilities report now
    faults,         \* lifecycle methods of the registered services that throw
    orch,           \* orchestrator: isProcessing, its timer handle, the live timers
    ticks,          \* orchestrator: the poll callbacks in progress, by slot
    stopOp,         \* orchestrator: progress of its stop() calls, by slot
    lastStart,      \* what each worker reported when a tick last called its start()
    lastTick,       \* the latest completed tick: the Market predicate it read, what threw
    scn,            \* progress through the phase sequence Premarket, Market, Closed
    cat,            \* catalyst worker: isRunning, isWatchlistOnly and its timer handle
    cLive,          \* catalyst worker: ids of the interval timers that are live
    catWin,         \* the catalyst window injected time utilities report now
    deploy,         \* createOrchestrator's arguments: the services, the time utilities
    mono,           \* per symbol: first and latest value scanned, notifications sent
    rawStocks,      \* market worker: the rows of its latest fetch, in order
    lastScanResult, \* market worker: the ranked lists, as positions in rawStocks
    ranked,         \* scanOnce: its locals alphaRanked and bearRanked
    clock,          \* Date.now(), in units of one cooldown window
    prevStocks,     \* market worker: symbol -> price, rvol and time of its last ranking
    alertCooldowns, \* market worker: "symbol:type" -> time of the last delivered alert
    mscan,          \* market worker: its scanOnce calls in flight, by slot
    lastDelivered,  \* per alert type: scan time of the latest delivered notification
    mLast,          \* the latest step of a market scan
    watchlist,      \* catalyst worker: symbol -> the gap it entered the watchlist with
    triggered,      \* catalyst worker: symbols that already alerted
    cscan,          \* catalyst worker: its performScan calls in flight, by slot
    cEvery,         \* catalyst worker: the mode whose interval each live timer has
    cNotified,      \* per symbol: trigger notifications delivered since the last start
    cLast,          \* the latest step of the catalyst worker
    wall,           \* the instant: day of the week and minute of the day
    win,            \* what the latest poll of the time windows read and computed
    boot,           \* growth engine: what the scans before the latest one returned
    runAt           \* market worker: the clock when start() last got past its guard

EmptyMap == [s \in {} |-> 0]

\* createStateManager({isRunning: false, isStarting: false, isFirstScan: true, ...})
GInit ==
    [isRunning |-> FALSE, isStarting |-> FALSE, isFirstScan |-> TRUE,
     lastReportedChanges |-> EmptyMap, scanTimer |-> NoTimer]

\* let scanTimer = null; let dashboardTimer = null; let isRunning = false
MInit == [isRunning |-> FALSE, scanTimer |-> NoTimer, dashboardTimer |-> NoTimer]

\* const state = { isRunning: false, isWatchlistOnly: true, ..., timer: null }
CInit == [isRunning |-> FALSE, isWatchlistOnly |-> TRUE, timer |-> NoTimer]

NoOp == [kind |-> "none", cap |-> GInit]

\* The market worker's alert types in the order scanOnce tries them:
\* new entrant, volume spike, trend reversal.
AlertTypes == <<"NEW", "PUMP", "DUMP">>

ScanSlots == 1..MaxScans

\* prevStocks.get(symbol) of a symbol that is not in the map
NoPrev == [price |-> 0, change |-> 0, rvol |-> 0, firstSeen |-> 0, timestamp |-> 0]

NoRow == [rvol_intraday_5m |-> Null, change_from_open |-> Null,
          value_traded |-> Null, close |-> Null]

\* A slot with no market scan in it.
IdleScan == [pc |-> "idle", now |-> 0, row |-> NoRow, up |-> FALSE,
             hasPrev |-> FALSE, prev |-> NoPrev, type |-> "none", tried |-> {},
             start |-> 0]

NoStep == [kind |-> "none", type |-> "none", outcome |-> "none", now |-> 0,
           prior |-> 0, fin |-> FALSE, tried |-> {}, suppressed |-> {},
           rankedUp |-> FALSE, price |-> 0, prevPrice |-> 0]
\* No scan has been applied yet.
NoScans == [earlier |-> "none", seen |-> FALSE, first |-> FALSE]

\* No poll has read the clock yet.
NoReading == [done |-> FALSE, weekday |-> "Mon", minute |-> 0, inPremarket |-> FALSE,
              inCatalystSetup |-> FALSE, inCatalystActive |-> FALSE]

\* A slot with no catalyst scan in it.
CScanSlots == 1..MaxCatScans

IdleCScan == [pc |-> "idle", symbol |-> "none", rest |-> <<>>]

NoCStep == [kind |-> "none", noop |-> FALSE, mode |-> "none", symbol |-> "none",
            outcome |-> "none",
     rows |-> <<>>]

Slots == 1..MaxOps
FreeSlots == {i \in Slots : ops[i].kind = "none"}
FreeSlot == CHOOSE i \in FreeSlots : \A j \in FreeSlots : i <= j

\* createStockMessage(stock, isUpdate, prevChange, count): the parts of the text
\* that vary.  step is the number of the "[STEP #n]" prefix, 0 when the text
\* has no prefix (count > 1 ? `[STEP #${count}] ` : "").
CreateStockMessage(symbol, change, isUpdate, prevChange, count) ==
    [symbol |-> symbol, change |-> change, isUpdate |-> isUpdate,
     prevChange |-> prevChange, step |-> IF count > 1 THEN count ELSE 0]

\* The notification of the send phase: createStockMessage(stock, isUpdate,
\* prevChange), called without a count.
Notification(last, batch, s) ==
    CreateStockMessage(s, MapRow(batch[s]).premarket_change.v, s \in DOMAIN last,
                       IF s \in DOMAIN last THEN last[s] ELSE 0, DefaultCount)

Event(kind, noop) ==
    [kind |-> kind, noop |-> noop, fetch |-> "none", batch |-> EmptyBatch,
     last |-> EmptyMap, first |-> FALSE, sent |-> {}, ok |-> {}, status |-> "none"]

ScanEvent(in, fetch, batch, r) ==
    [kind |-> "scan", noop |-> FALSE, fetch |-> fetch, batch |-> batch,
     last |-> in.lastReportedChanges, first |-> in.isFirstScan, status |-> "none",
     sent |-> {Notification(in.lastReportedChanges, batch, s) : s \in r.sent},
     ok |-> r.ok]

\* The change of each symbol's latest delivered notification, after a scan.
AlertedAfter(batch, r) ==
    [s \in DOMAIN alerted \cup r.ok |->
        IF s \in r.ok THEN MapRow(batch[s]).premarket_change.v ELSE alerted[s]]

\* The symbols that a scan saw below the change they were last alerted at.
DippedAfter(fetch, batch, r) ==
    (dipped \ r.ok) \cup
        {s \in DOMAIN batch \cap DOMAIN alerted :
            /\ fetch = "ok"
            /\ s \notin r.ok
            /\ PassesGates(MapRow(batch[s]))
            /\ MapRow(batch[s]).premarket_change.v < alerted[s]}

\* What a series of scans has shown of one symbol: whether it was seen, its
\* first and latest value, the notifications sent for it, and whether its first
\* sighting was notified.
NotSeen == [seen |-> FALSE, first |-> 0, final |-> 0, count |-> 0, plusOne |-> FALSE]

growthVars == <<sendOnStartup, g, gLive, gHist>>
orchVars == <<phase, faults, orch, ticks, stopOp, lastStart, lastTick, scn>>
marketVars == <<m, mLive, mHist>>
ghostVars == <<alerted, dipped>>
catVars == <<cat, cLive, catWin>>
rankVars == <<rawStocks, lastScanResult>>
alertVars == <<clock, prevStocks, alertCooldowns, mscan, lastDelivered, mLast>>
sniperVars == <<watchlist, triggered, cscan, cEvery, cNotified, cLast>>
timeVars == <<wall, win, deploy>>
histVars == <<boot, runAt, ranked>>
baseVars == <<mono, rankVars, alertVars, histVars>>
auxVars == <<baseVars, sniperVars, timeVars>>
\* What a call of the market worker's start() writes of these, and the rest.
scanVars == <<mscan, mLast, runAt>>
restVars == <<mono, rankVars, clock, prevStocks, alertCooldowns, lastDelivered,
              sniperVars, timeVars, boot, ranked>>

\* ------------------------------------------- the engine applied scan by scan
\* processStockData called by a caller that hands each call the state the
\* call before it returned:
\*   state = await processStockData(threshold, state, telegramService, config)
\* The function reads its arguments and writes nothing but its result, so one
\* call is one step of such a caller.  The rows are those of the HTTP
\* response; the function is handed what getStocks10 makes of them.
EngineScan ==
    \E fetch \in {"ok", "throw"}, batch \in Batches :
      \E delivered \in SUBSET AlertsToSend(g.lastReportedChanges, batch) :
        LET r == ProcessStockData(g, sendOnStartup, fetch, GetStocks10(batch), delivered)
        IN  /\ (fetch = "throw" => batch = EmptyBatch)
            /\ g' = r.state
            /\ ev' = ScanEvent(g, fetch, batch, r)
            /\ alerted' = AlertedAfter(batch, r)
            /\ dipped' = DippedAfter(fetch, batch, r)
            /\ UNCHANGED <<sendOnStartup, gLive, gHist, ops, marketVars, orchVars>>
            /\ UNCHANGED catVars
            /\ UNCHANGED auxVars

\* A caller suspended at "await worker.start()" or "await worker.stop()" goes on
\* when the call settles: every poll callback at program point from moves to to.
Resume(from, to) ==
    [t \in DOMAIN ticks |-> IF ticks[t].pc = from THEN [ticks[t] EXCEPT !.pc = to] ELSE ticks[t]]

\* The start() calls made on a worker no stop() was called on and no start()
\* of which failed, counted up to two.
StartsAfter(hist) == IF hist.fresh /\ hist.starts < 2 THEN hist.starts + 1 ELSE hist.starts

\* ------------------------------------------------------------ growth worker
\* Timer ids nothing refers to: a new setInterval handle is distinct from every
\* handle still held by the state, by a live timer or by a suspended scan.
GFreeTimers ==
    TimerIds \ (gLive \cup {g.scanTimer} \cup {ops[i].cap.scanTimer : i \in Slots})

GNewTimer == CHOOSE t \in GFreeTimers : \A u \in GFreeTimers : t <= u

\* start's guard without the isStarting term
GStartReturnsEarlyNoStarting(st) == st.isRunning

\* start: if (state.isRunning || state.isStarting) return;
GStartReturnsEarly(st) == st.isRunning \/ st.isStarting

\* stop: if (!state.isRunning) return;
GStopReturnsEarly(st) == ~st.isRunning

\* start(), up to its first await: isStarting is set and the "started" status
\* message is handed to the notifier.
GStartBody ==
    IF GStartReturnsEarly(g)
    THEN /\ gHist' = [gHist EXCEPT !.starts = StartsAfter(gHist)]
         /\ UNCHANGED <<g, gLive, ops, alerted, dipped>>
    ELSE /\ FreeSlots # {}
         /\ gHist.runs < MaxRuns
         /\ g' = [g EXCEPT !.isStarting = TRUE]
         /\ ops' = [ops EXCEPT ![FreeSlot] = [kind |-> "gstatus", cap |-> GInit]]
         /\ gHist' = [gHist EXCEPT !.starts = StartsAfter(gHist),
                                   !.runs = @ + 1, !.scans = 0]
         /\ alerted' = EmptyMap
         /\ dipped' = {}
         /\ UNCHANGED gLive

\* start(), when sendMessage(createStatusMessage(true)) settles.  A returned
\* result (delivered or not) lets start go on to scanOnce, which reads the
\* state and awaits the fetch; a throw is caught and clears isStarting.
GStatusDone(i) ==
    /\ ops[i].kind = "gstatus"
    /\ \E outcome \in {"returned", "throw"} :
        IF outcome = "throw"
        THEN /\ g' = [g EXCEPT !.isStarting = FALSE]
             /\ ops' = [ops EXCEPT ![i] = NoOp]
             /\ gHist' = [gHist EXCEPT !.fresh = FALSE, !.starts = 0]
             /\ ev' = Event("gstart_failed", FALSE)
             /\ ticks' = Resume("await_gstart", "market")
        ELSE /\ ops' = [ops EXCEPT ![i] = [kind |-> "gscan0", cap |-> g]]
             /\ ev' = Event("gstart_status", FALSE)
             /\ UNCHANGED <<g, gHist, ticks>>
    /\ UNCHANGED <<sendOnStartup, gLive, alerted, dipped, marketVars>>
    /\ UNCHANGED <<phase, faults, orch, stopOp, lastStart, lastTick, scn>>
    /\ UNCHANGED catVars
    /\ UNCHANGED auxVars

\* The state start() installs once its initial scan has settled.
GStarted(st, timer) ==
    [st EXCEPT !.isRunning = TRUE, !.isStarting = FALSE, !.isFirstScan = TRUE,
               !.lastReportedChanges = EmptyMap, !.scanTimer = timer]

\* start(), when the fetch of its initial scanOnce settles.  processStockData
\* awaits a second time, at Promise.allSettled, only once the response has
\* passed validateTradingViewResponse; what getStocks10 resolves with does not
\* pass, so the scan runs from the settled fetch to its end: scanOnce writes
\* back the state processStockData returned, then start creates the interval
\* timer and installs the running state.
GScan0Done(i, batches) ==
    /\ ops[i].kind = "gscan0"
    /\ GFreeTimers # {}
    /\ \E fetch \in {"ok", "throw"}, batch \in batches :
       \E delivered \in SUBSET AlertsToSend(ops[i].cap.lastReportedChanges, batch) :
        LET r == ProcessStockData(ops[i].cap, sendOnStartup, fetch,
                                  GetStocks10(batch), delivered)
        IN  /\ (fetch = "throw" => batch = EmptyBatch)
            /\ g' = GStarted(r.state, GNewTimer)
            /\ gLive' = gLive \cup {GNewTimer}
            /\ ops' = [ops EXCEPT ![i] = NoOp]
            /\ ev' = [ScanEvent(ops[i].cap, fetch, batch, r) EXCEPT !.kind = "gstart_done"]
            /\ alerted' = AlertedAfter(batch, r)
            /\ dipped' = DippedAfter(fetch, batch, r)
    /\ gHist' = [gHist EXCEPT !.scans = IF @ < 2 THEN @ + 1 ELSE @]
    /\ ticks' = Resume("await_gstart", "market")
    /\ UNCHANGED <<sendOnStartup, marketVars>>
    /\ UNCHANGED <<phase, faults, orch, stopOp, lastStart, lastTick, scn>>
    /\ UNCHANGED catVars
    /\ UNCHANGED auxVars

\* stop(): clears the timer the state refers to, marks the worker stopped and
\* hands the "stopped" status message to the notifier.
GStopBody ==
    IF GStopReturnsEarly(g)
    THEN /\ gHist' = [gHist EXCEPT !.fresh = FALSE, !.starts = 0]
         /\ UNCHANGED <<g, gLive>>
    ELSE /\ gLive' = gLive \ {g.scanTimer}
         /\ g' = [g EXCEPT !.isRunning = FALSE, !.scanTimer = NoTimer]
         /\ gHist' = [gHist EXCEPT !.fresh = FALSE, !.starts = 0]

\* setInterval(scanOnce, config.scanIntervalMs) fires: scanOnce reads the state
\* and awaits the fetch.
GTimerFire(t) ==
    /\ t \in gLive
    /\ FreeSlots # {}
    /\ ops' = [ops EXCEPT ![FreeSlot] = [kind |-> "gscan", cap |-> g]]
    /\ ev' = Event("gscan_begin", FALSE)
    /\ UNCHANGED <<growthVars, ghostVars, marketVars, orchVars>>
    /\ UNCHANGED catVars
    /\ UNCHANGED auxVars

\* The fetch of a timer-driven scanOnce settles and, as in GScan0Done, the
\* scan runs to its end: stateManager.update(() => newState).
GScanDone(i, batches) ==
    /\ ops[i].kind = "gscan"
    /\ \E fetch \in {"ok", "throw"}, batch \in batches :
       \E delivered \in SUBSET AlertsToSend(ops[i].cap.lastReportedChanges, batch) :
        LET r == ProcessStockData(ops[i].cap, sendOnStartup, fetch,
                                  GetStocks10(batch), delivered)
        IN  /\ (fetch = "throw" => batch = EmptyBatch)
            /\ g' = r.state
            /\ ops' = [ops EXCEPT ![i] = NoOp]
            /\ ev' = ScanEvent(ops[i].cap, fetch, batch, r)
            /\ alerted' = AlertedAfter(batch, r)
            /\ dipped' = DippedAfter(fetch, batch, r)
    /\ gHist' = [gHist EXCEPT !.scans = IF @ < 2 THEN @ + 1 ELSE @]
    /\ UNCHANGED <<sendOnStartup, gLive, marketVars, orchVars>>
    /\ UNCHANGED catVars
    /\ UNCHANGED auxVars

\* ------------------------------------------------------ market ranked lists
\* A raw market row: the four columns the scores read.
MarketRaw(rvol, change, value, close) ==
    [rvol_intraday_5m |-> rvol, change_from_open |-> change,
     value_traded |-> value, close |-> close]

\* The rows the market data source may return: a strong and a weak momentum
\* row, a row below the relative-volume gate, a falling row, a row whose
\* relative volume is missing, a row whose price is not a number and a row
\* whose relative volume is not a number.
MarketRowChoices ==
    {MarketRaw(Num(6), Num(3), Num(100000000), Num(2)),
     MarketRaw(Num(5), Num(2), Num(10000000), Num(2)),
     MarketRaw(Num(4), Num(2), Num(10000000), Num(2)),
     MarketRaw(Num(5), Num(-3), Num(100000000), Num(2)),
     MarketRaw(Null, Num(2), Num(10000000), Num(2)),
     MarketRaw(Num(5), Num(2), Num(10000000), Bad),
     MarketRaw(Bad, Num(2), Num(10000000), Num(2))}

MarketSnapshots == UNION {[1..n -> MarketRowChoices] : n \in 0..MaxRows}

\* TvScanner.mapMarketRow
MapMarketRow(row) == [f \in DOMAIN row |-> ToNumber(row[f])]

\* x == null
IsNullish(x) == x.k = "null"

\* x < n and x > n on a mapped field: both are false when x is NaN
Lt(x, n) == x.k = "num" /\ x.v < n
Gt(x, n) == x.k = "num" /\ x.v > n

\* Math.log10 on the traded values the rows carry, all of them powers of ten,
\* where it is exact: the exponent. It is not defined on any other number.
Log10(n) == CHOOSE k \in 0..MaxExponent : 10 ^ k = n

Abs(n) == IF n < 0 THEN -n ELSE n

\* return null
NoScore == [k |-> "none", v |-> 0]

\* calcSVS
CalcSVS(stock) ==
    IF \/ IsNullish(stock.rvol_intraday_5m) \/ IsNullish(stock.change_from_open)
       \/ IsNullish(stock.value_traded) \/ IsNullish(stock.close)
    THEN NoScore
    ELSE IF Lt(stock.rvol_intraday_5m, 5) THEN NoScore
    ELSE IF Lt(stock.change_from_open, 2) THEN NoScore
    ELSE IF Lt(stock.value_traded, 10000000) THEN NoScore
    ELSE IF Lt(stock.close, 2) THEN NoScore
    ELSE IF \/ stock.rvol_intraday_5m.k = "nan" \/ stock.change_from_open.k = "nan"
            \/ stock.value_traded.k = "nan"
    THEN NaN
    ELSE Num(stock.change_from_open.v * stock.rvol_intraday_5m.v
                * Log10(stock.value_traded.v))

\* calcHSS
CalcHSS(stock) ==
    IF IsNullish(stock.change_from_open) \/ IsNullish(stock.value_traded)
    THEN NoScore
    ELSE IF Gt(stock.change_from_open, -2) THEN NoScore
    ELSE IF Lt(stock.value_traded, 50000000) THEN NoScore
    ELSE IF stock.change_from_open.k = "nan" \/ stock.value_traded.k = "nan"
    THEN NaN
    ELSE Num(Abs(stock.change_from_open.v)
                * Log10(stock.value_traded.v) * Log10(stock.value_traded.v))

\* The score a list ranks by: _svs for alpha, _hss for bear.
ScoreOf(list, row) ==
    IF list = "alpha" THEN CalcSVS(MapMarketRow(row)) ELSE CalcHSS(MapMarketRow(row))

\* .map(...).filter(Boolean): the positions whose row has a score, in the
\* order of the rows
Scored(list, rows) ==
    SelectSeq([i \in 1..Len(rows) |-> i],
              LAMBDA i : ScoreOf(list, rows[i]) # NoScore)

\* (a, b) => b.score - a.score as the sort reads its result for the rows at
\* positions a and b: a result of NaN counts as 0.
Compare(list, rows, a, b) ==
    LET sa == ScoreOf(list, rows[a])
        sb == ScoreOf(list, rows[b])
    IN  IF sa.k = "nan" \/ sb.k = "nan" THEN 0 ELSE sb.v - sa.v

RECURSIVE CountRun(_, _, _, _, _)
\* The loop of the sort's CountAndMakeRun: the length of the run that begins
\* seq, whose direction its first two elements gave, read from index idx on.
CountRun(list, rows, seq, idx, isDescending) ==
    IF idx > Len(seq) THEN Len(seq)
    ELSE LET order == Compare(list, rows, seq[idx], seq[idx - 1])
         IN  IF (isDescending /\ order >= 0) \/ (~isDescending /\ order < 0)
             THEN idx - 1
             ELSE CountRun(list, rows, seq, idx + 1, isDescending)

\* ReverseRange
Reverse(seq) == [i \in 1..Len(seq) |-> seq[Len(seq) + 1 - i]]

RECURSIVE BinarySearch(_, _, _, _, _, _)
\* The search of the sort's BinaryInsertionSort for the place of pivot in the
\* sorted elements: left and right count from 0, as there.
BinarySearch(list, rows, sorted, pivot, left, right) ==
    IF left >= right THEN left
    ELSE LET mid == left + ((right - left) \div 2)
         IN  IF Compare(list, rows, pivot, sorted[mid + 1]) < 0
             THEN BinarySearch(list, rows, sorted, pivot, left, mid)
             ELSE BinarySearch(list, rows, sorted, pivot, mid + 1, right)

RECURSIVE BinaryInsertionSort(_, _, _, _)
\* BinaryInsertionSort: each element of rest goes into the sorted elements at
\* the place the search finds.
BinaryInsertionSort(list, rows, sorted, rest) ==
    IF rest = <<>> THEN sorted
    ELSE LET pivot == Head(rest)
             at == BinarySearch(list, rows, sorted, pivot, 0, Len(sorted))
         IN  BinaryInsertionSort(list, rows,
                 SubSeq(sorted, 1, at) \o <<pivot>>
                     \o SubSeq(sorted, at + 1, Len(sorted)),
                 Tail(rest))

\* .sort((a, b) => b.score - a.score) as the engine sorts an array this short
\* (fewer than 64 elements): the first run is counted, reversed when it runs
\* the other way, and the elements after it are inserted by binary search.
SortDesc(list, rows, seq) ==
    IF Len(seq) < 2 THEN seq
    ELSE LET isDescending == Compare(list, rows, seq[2], seq[1]) < 0
             n == CountRun(list, rows, seq, 3, isDescending)
             run == SubSeq(seq, 1, n)
         IN  BinaryInsertionSort(list, rows,
                 IF isDescending THEN Reverse(run) ELSE run,
                 SubSeq(seq, n + 1, Len(seq)))

\* .slice(0, n)
Slice(seq, n) == SubSeq(seq, 1, IF Len(seq) < n THEN Len(seq) ELSE n)

\* alphaRanked and bearRanked of scanOnce
Ranked(list, rows) == Slice(SortDesc(list, rows, Scored(list, rows)), TOP_N)

\* scanOnce from the rows its fetch resolved with to the end of its ranking:
\* the rows are scored, filtered, sorted and cut into alphaRanked and
\* bearRanked. No await lies in between, and nothing else is assigned.
RankStocks ==
    /\ ranked' = [alpha |-> Ranked("alpha", rawStocks),
                  bear |-> Ranked("bear", rawStocks)]
    /\ ev' = Event("mscan_ranked", FALSE)
    /\ UNCHANGED <<growthVars, ghostVars, ops, marketVars, orchVars>>
    /\ UNCHANGED <<catVars, mono, rankVars, alertVars, sniperVars, timeVars, boot, runAt>>

\* ------------------------------------------------------- market alert steps
\* The market worker's alerts for one symbol, X, the only row of each fetch.
\* The rows the data source may return for X: a momentum row, the same with
\* relative volume up by the pump delta, the same with the price down 2% and
\* down 4%, a falling row, and a row below the gates.
AlertRowChoices ==
    {MarketRaw(Num(5), Num(2), Num(10000000), Num(100)),
     MarketRaw(Num(10), Num(2), Num(10000000), Num(100)),
     MarketRaw(Num(5), Num(2), Num(10000000), Num(98)),
     MarketRaw(Num(5), Num(2), Num(10000000), Num(96)),
     MarketRaw(Num(5), Num(-3), Num(100000000), Num(100)),
     MarketRaw(Num(4), Num(2), Num(10000000), Num(100))}

\* The rows for X when scans may overlap: the price falls by 2% and comes
\* back.
FallingRowChoices ==
    {MarketRaw(Num(5), Num(2), Num(10000000), Num(100)),
     MarketRaw(Num(5), Num(2), Num(10000000), Num(98))}

\* The one row when nothing is to be alerted: a row below the gates.
QuietRowChoices == {MarketRaw(Num(4), Num(2), Num(10000000), Num(100))}

InAlpha(row) == Ranked("alpha", <<row>>) # <<>>
InBear(row) == Ranked("bear", <<row>>) # <<>>

\* `${symbol}:${type}`
Key(symbol, type) == <<symbol, type>>

\* isCooldown: cd && (now - cd < COOLDOWN_MS)
IsCooldown(cds, key, now) ==
    key \in DOMAIN cds /\ cds[key] # 0 /\ now - cds[key] < COOLDOWN_MS

\* The trigger conditions of scanOnce for a ranked-up row, against the prev
\* entry read at the top of the loop body.
Triggered(type, sc) ==
    LET stock == MapMarketRow(sc.row)
    IN  IF type = "NEW"
        THEN ~sc.hasPrev \/ sc.now - sc.prev.timestamp > STALE_MS
        ELSE IF type = "PUMP"
        THEN sc.hasPrev /\ stock.rvol_intraday_5m.v - sc.prev.rvol >= RVOL_PUMP_DELTA
        ELSE /\ sc.hasPrev /\ sc.prev.price > 0
             /\ (stock.close.v - sc.prev.price) * 100 <= DUMP_THRESHOLD * sc.prev.price

\* a reversal trigger that is cooled down like the other two
ShouldSendCooled(type, sc, cds) ==
    Triggered(type, sc) /\ ~IsCooldown(cds, Key("X", type), sc.now)

\* Whether scanOnce calls sendAlert for the type: NEW and PUMP are guarded by
\* isCooldown, DUMP is not.
ShouldSend(type, sc, cds) ==
    Triggered(type, sc) /\ (type = "DUMP" \/ ~IsCooldown(cds, Key("X", type), sc.now))

\* The position in AlertTypes of the next alert the scan sends, trying the
\* types from position `from` on; 0 when it sends no more.
NextSend(from, sc, cds) ==
    LET C == {k \in from..3 : ShouldSend(AlertTypes[k], sc, cds)}
    IN  IF C = {} THEN 0 ELSE CHOOSE k \in C : \A j \in C : k <= j

\* The types tried from position `from` on that were triggered and skipped
\* because of their cooldown.
Suppressed(from, sc, cds) ==
    LET k == NextSend(from, sc, cds)
        last == IF k = 0 THEN 3 ELSE k
    IN  {AlertTypes[j] : j \in {j \in from..last :
            Triggered(AlertTypes[j], sc) /\ ~ShouldSend(AlertTypes[j], sc, cds)}}

\* existing?.firstSeen ?? now, with `existing` read as the scan ends
FirstSeen(symbol, now) ==
    IF symbol \in DOMAIN prevStocks THEN prevStocks[symbol].firstSeen ELSE now

\* newPrev: an entry for every row of either ranked list
NewPrev(row, now) ==
    IF InAlpha(row) \/ InBear(row)
    THEN [s \in {"X"} |-> [price |-> MapMarketRow(row).close.v,
                           change |-> MapMarketRow(row).change_from_open.v,
                           rvol |-> MapMarketRow(row).rvol_intraday_5m.v,
                           firstSeen |-> FirstSeen("X", now),
                           timestamp |-> now]]
    ELSE [s \in {} |-> NoPrev]

\* cleanupCooldowns
CleanupCooldowns(cds, now) ==
    [k \in {k \in DOMAIN cds : ~(now - cds[k] > COOLDOWN_MS * 2)} |-> cds[k]]

\* The cooldowns once scanOnce has returned to its caller: the interval
\* callback goes on to cleanupCooldowns(), start() does not.
AfterScan(sc, cds) == IF sc.start = 0 THEN CleanupCooldowns(cds, clock) ELSE cds

StepOf(kind, sc, type, outcome, from, cds, fin) ==
    [kind |-> kind, type |-> type, outcome |-> outcome, now |-> sc.now,
     prior |-> IF type = "none" THEN 0 ELSE lastDelivered[type], fin |-> fin,
     tried |-> sc.tried, suppressed |-> Suppressed(from, sc, cds),
     rankedUp |-> sc.up, price |-> MapMarketRow(sc.row).close.v,
     prevPrice |-> sc.prev.price]

\* start(), once the scan it awaits has returned: it goes on to
\* updateDashboard(), which awaits its message.
StartGoesOn(sc) ==
    IF sc.start = 0 THEN ops
    ELSE [ops EXCEPT ![sc.start] = [kind |-> "mdash", cap |-> GInit]]

\* scanOnce from position `from` of the triggers to its next await or its end,
\* with cds the cooldowns as the step so far has left them.  At its end the
\* scan replaces prevStocks and lastScanResult, and its caller goes on.
Proceed(i, sc, from, cds, kind, type, outcome) ==
    LET k == IF sc.up THEN NextSend(from, sc, cds) ELSE 0
        next == [sc EXCEPT !.pc = "send", !.type = AlertTypes[k],
                           !.tried = @ \cup {AlertTypes[k]}]
    IN  IF k # 0
        THEN /\ mscan' = [mscan EXCEPT ![i] = next]
             /\ alertCooldowns' = cds
             /\ mLast' = StepOf(kind, next, type, outcome, from, cds, FALSE)
             /\ UNCHANGED <<prevStocks, lastScanResult, ops>>
        ELSE /\ mscan' = [mscan EXCEPT ![i] = IdleScan]
             /\ prevStocks' = NewPrev(sc.row, sc.now)
             /\ lastScanResult' = [alpha |-> Ranked("alpha", <<sc.row>>),
                                   bear |-> Ranked("bear", <<sc.row>>)]
             /\ alertCooldowns' = AfterScan(sc, cds)
             /\ ops' = StartGoesOn(sc)
             /\ mLast' = StepOf(kind, sc, type, outcome,
                                IF sc.up THEN from ELSE 4, cds, TRUE)

\* scanOnce's catch: the scan ends without touching prevStocks, and its caller
\* goes on as after any scan.
Abort(i, sc, type) ==
    /\ mscan' = [mscan EXCEPT ![i] = IdleScan]
    /\ alertCooldowns' = AfterScan(sc, alertCooldowns)
    /\ ops' = StartGoesOn(sc)
    /\ mLast' = StepOf("aborted", sc, type, "throw", 4, alertCooldowns, FALSE)
    /\ UNCHANGED <<prevStocks, lastScanResult>>

FreeScanSlots == {i \in ScanSlots : mscan[i].pc = "idle"}
FreeScanSlot == CHOOSE i \in FreeScanSlots : \A j \in FreeScanSlots : i <= j

\* The scan interval's callback, up to its await: scanOnce issues its fetch.
MScanBegin ==
    /\ FreeScanSlots # {}
    /\ mscan' = [mscan EXCEPT ![FreeScanSlot] = [IdleScan EXCEPT !.pc = "fetch"]]
    /\ mLast' = [NoStep EXCEPT !.kind = "begin"]
    /\ ev' = Event("mscan_fetch", FALSE)
    /\ UNCHANGED <<clock, prevStocks, alertCooldowns, lastDelivered, rankVars, mono, sniperVars, timeVars, histVars>>
    /\ UNCHANGED <<growthVars, ghostVars, ops, marketVars, orchVars, catVars>>

\* The same, in an environment where the interval never fires while a scan
\* is still in flight.
MScanBeginIdle ==
    /\ \A i \in ScanSlots : mscan[i].pc = "idle"
    /\ MScanBegin

\* The fetch of scan i rejects: scanOnce's catch handles the error.
MScanFailed(i) ==
    /\ mscan[i].pc = "fetch"
    /\ Abort(i, mscan[i], "none")
    /\ ev' = Event("mscan_failed", FALSE)
    /\ UNCHANGED <<clock, lastDelivered, rawStocks, mono, sniperVars, timeVars, histVars>>
    /\ UNCHANGED <<growthVars, ghostVars, marketVars, orchVars, catVars>>

\* The fetch of scan i resolves: the rows are ranked, `now` and the prev entry
\* are read, and the scan runs to its first send or to its end.
MScanFetched(i, rows) ==
    /\ mscan[i].pc = "fetch"
    /\ \E row \in rows :
            LET sc == [mscan[i] EXCEPT
                         !.now = clock, !.row = row, !.up = InAlpha(row),
                         !.hasPrev = "X" \in DOMAIN prevStocks,
                         !.prev = IF "X" \in DOMAIN prevStocks
                                  THEN prevStocks["X"] ELSE NoPrev]
            IN  /\ rawStocks' = <<row>>
                /\ Proceed(i, sc, 1, alertCooldowns, "fetched", "none", "none")
    /\ ev' = Event("mscan_fetched", FALSE)
    /\ UNCHANGED <<clock, lastDelivered, mono, sniperVars, timeVars, histVars>>
    /\ UNCHANGED <<growthVars, ghostVars, marketVars, orchVars, catVars>>

\* The send of scan i settles: sendAlert records the cooldown if the notifier
\* reported success, and the scan runs on to its next send or to its end.
MSendDone(i) ==
    /\ mscan[i].pc = "send"
    /\ LET sc == mscan[i]
           pos == CHOOSE k \in 1..3 : AlertTypes[k] = sc.type
       IN  \/ /\ Proceed(i, sc, pos + 1,
                          [k \in DOMAIN alertCooldowns \cup {Key("X", sc.type)} |->
                              IF k = Key("X", sc.type) THEN sc.now ELSE alertCooldowns[k]],
                          "sent", sc.type, "ok")
              /\ lastDelivered' = [lastDelivered EXCEPT ![sc.type] = sc.now]
           \/ /\ Proceed(i, sc, pos + 1, alertCooldowns, "sent", sc.type, "fail")
              /\ UNCHANGED lastDelivered
           \/ /\ Abort(i, sc, sc.type)
              /\ UNCHANGED lastDelivered
    /\ ev' = Event("mscan_sent", FALSE)
    /\ UNCHANGED <<clock, rawStocks, mono, sniperVars, timeVars, histVars>>
    /\ UNCHANGED <<growthVars, ghostVars, marketVars, orchVars, catVars>>

\* Time passes.
ClockTick ==
    /\ clock < MaxTime
    /\ clock' = clock + 1
    /\ UNCHANGED <<prevStocks, alertCooldowns, mscan, lastDelivered, mLast, rankVars, mono, sniperVars, timeVars, histVars>>
    /\ UNCHANGED <<growthVars, ghostVars, ops, ev, marketVars, orchVars, catVars>>

\* ------------------------------------------------------------ market worker
MFreeTimers ==
    TimerIds \ (mLive.scan \cup mLive.dashboard \cup {m.scanTimer, m.dashboardTimer})

MNewTimer == CHOOSE t \in MFreeTimers : \A u \in MFreeTimers : t <= u

\* start: if (isRunning) return;
MStartReturnsEarly(st) == st.isRunning

\* stop: if (!isRunning) return;
MStopReturnsEarly(st) == ~st.isRunning

\* start(), up to its first await: isRunning is set and scanOnce() issues the
\* fetch of the initial scan.
MStartBody ==
    IF MStartReturnsEarly(m)
    THEN /\ mHist' = [mHist EXCEPT !.starts = StartsAfter(mHist)]
         /\ UNCHANGED <<m, mLive, ops, scanVars>>
    ELSE /\ FreeSlots # {}
         /\ FreeScanSlots # {}
         /\ mHist.runs < MaxRuns
         /\ m' = [m EXCEPT !.isRunning = TRUE]
         /\ ops' = [ops EXCEPT ![FreeSlot] = [kind |-> "mstart", cap |-> GInit]]
         /\ mscan' = [mscan EXCEPT ![FreeScanSlot] =
                            [IdleScan EXCEPT !.pc = "fetch", !.start = FreeSlot]]
         /\ mLast' = [NoStep EXCEPT !.kind = "start"]
         /\ runAt' = clock
         /\ mHist' = [mHist EXCEPT !.starts = StartsAfter(mHist),
                                   !.runs = @ + 1]
         /\ UNCHANGED mLive

\* start(), once the dashboard update it awaits has settled: both interval
\* timers are created.  The two handles are distinct objects, kept in
\* mLive.scan and mLive.dashboard; the number names the pair.  The awaits
\* inside updateDashboard (the message, then its pin) change only
\* dashboardMessageId, which updateDashboard alone reads.
MStartDone(i) ==
    /\ ops[i].kind = "mdash"
    /\ MFreeTimers # {}
    /\ m' = [m EXCEPT !.scanTimer = MNewTimer, !.dashboardTimer = MNewTimer]
    /\ mLive' = [scan |-> mLive.scan \cup {MNewTimer},
                 dashboard |-> mLive.dashboard \cup {MNewTimer}]
    /\ ops' = [ops EXCEPT ![i] = NoOp]
    /\ ev' = Event("mstart_done", FALSE)
    /\ ticks' = Resume("await_mstart", "catalyst")
    /\ UNCHANGED <<growthVars, ghostVars, mHist>>
    /\ UNCHANGED <<phase, faults, orch, stopOp, lastStart, lastTick, scn>>
    /\ UNCHANGED catVars
    /\ UNCHANGED auxVars

\* The scan interval's callback, up to its await: scanOnce() issues its fetch
\* at once, whatever isRunning says.
MTimerFire(t) ==
    /\ t \in mLive.scan
    /\ MScanBegin

\* stop(): clears both timers and marks the worker stopped.
MStopBody ==
    IF MStopReturnsEarly(m)
    THEN /\ mHist' = [mHist EXCEPT !.fresh = FALSE, !.starts = 0]
         /\ UNCHANGED <<m, mLive>>
    ELSE /\ m' = [isRunning |-> FALSE, scanTimer |-> NoTimer, dashboardTimer |-> NoTimer]
         /\ mLive' = [scan |-> mLive.scan \ {m.scanTimer},
                      dashboard |-> mLive.dashboard \ {m.dashboardTimer}]
         /\ mHist' = [mHist EXCEPT !.fresh = FALSE, !.starts = 0]

\* ---------------------------------------------------------- catalyst worker
\* Its lifecycle only: start, stop and setMode are synchronous, and the scan
\* they launch is not awaited.
CFreeTimers == TimerIds \ (cLive \cup {cat.timer})

CNewTimer == CHOOSE t \in CFreeTimers : \A u \in CFreeTimers : t <= u

\* start: if (state.isRunning) return;
CStartReturnsEarly(st) == st.isRunning

\* start(mode)
CStartBody(mode) ==
    IF CStartReturnsEarly(cat)
    THEN UNCHANGED <<cat, cLive>>
    ELSE /\ CFreeTimers # {}
         /\ cat' = [isRunning |-> TRUE, isWatchlistOnly |-> (mode = "watchlist"),
                    timer |-> CNewTimer]
         /\ cLive' = cLive \cup {CNewTimer}

\* stop(): no guard; the timer handle is cleared but stays in the state.
CStopBody ==
    /\ cLive' = cLive \ {cat.timer}
    /\ cat' = [cat EXCEPT !.isRunning = FALSE]

\* A setMode that installs the new timer and leaves the old one running.
CSetModeBodyKeepsTimer(mode) ==
    IF cat.isWatchlistOnly # (mode = "watchlist")
    THEN IF cat.isRunning
         THEN /\ CFreeTimers # {}
              /\ cat' = [cat EXCEPT !.isWatchlistOnly = (mode = "watchlist"),
                                    !.timer = CNewTimer]
              /\ cLive' = cLive \cup {CNewTimer}
         ELSE /\ cat' = [cat EXCEPT !.isWatchlistOnly = (mode = "watchlist")]
              /\ UNCHANGED cLive
    ELSE UNCHANGED <<cat, cLive>>

\* setMode(mode): on a change of mode a running worker replaces its timer.
CSetModeBody(mode) ==
    IF cat.isWatchlistOnly # (mode = "watchlist")
    THEN IF cat.isRunning
         THEN /\ CFreeTimers # {}
              /\ cat' = [cat EXCEPT !.isWatchlistOnly = (mode = "watchlist"),
                                    !.timer = CNewTimer]
              /\ cLive' = (cLive \ {cat.timer}) \cup {CNewTimer}
         ELSE /\ cat' = [cat EXCEPT !.isWatchlistOnly = (mode = "watchlist")]
              /\ UNCHANGED cLive
    ELSE UNCHANGED <<cat, cLive>>

\* ------------------------------------------------- worker calls by a client
\* growthScanner.start() called directly
GStartCall ==
    /\ GStartBody
    /\ ev' = [Event("gstart", GStartReturnsEarly(g)) EXCEPT
                    !.status = IF GStartReturnsEarly(g) THEN "none" ELSE "started"]
    /\ UNCHANGED <<sendOnStartup, marketVars, orchVars>>
    /\ UNCHANGED catVars
    /\ UNCHANGED auxVars

\* growthScanner.stop() called directly
GStopCall ==
    /\ GStopBody
    /\ ev' = [Event("gstop", GStopReturnsEarly(g)) EXCEPT
                    !.status = IF GStopReturnsEarly(g) THEN "none" ELSE "stopped"]
    /\ UNCHANGED <<sendOnStartup, ops, alerted, dipped, marketVars, orchVars>>
    /\ UNCHANGED catVars
    /\ UNCHANGED auxVars

\* growthScanner.shutdown(), up to its first await: the timer the state refers
\* to is cleared and stop() is called; shutdown then waits for stop() and for
\* the grace delay.
GShutdownCall ==
    /\ FreeSlots # {}
    /\ gLive' = gLive \ {g.scanTimer}
    /\ g' = IF GStopReturnsEarly(g) THEN g
            ELSE [g EXCEPT !.isRunning = FALSE, !.scanTimer = NoTimer]
    /\ gHist' = [gHist EXCEPT !.fresh = FALSE, !.starts = 0]
    /\ ops' = [ops EXCEPT ![FreeSlot] = [kind |-> "gshutdown", cap |-> GInit]]
    /\ ev' = [Event("gshutdown", FALSE) EXCEPT
                    !.status = IF GStopReturnsEarly(g) THEN "none" ELSE "stopped"]
    /\ UNCHANGED <<sendOnStartup, alerted, dipped, marketVars, orchVars>>
    /\ UNCHANGED catVars
    /\ UNCHANGED auxVars

\* shutdown(), once stop() has settled and the grace delay has passed:
\* stateManager.reset() puts the initial state back, whatever has been written
\* since.
GShutdownDone(i) ==
    /\ ops[i].kind = "gshutdown"
    /\ g' = GInit
    /\ ops' = [ops EXCEPT ![i] = NoOp]
    /\ ev' = Event("gshutdown_done", FALSE)
    /\ UNCHANGED <<sendOnStartup, gLive, gHist, alerted, dipped, marketVars, orchVars>>
    /\ UNCHANGED catVars
    /\ UNCHANGED auxVars

\* marketScanner.start() called directly
MStartCall ==
    /\ MStartBody
    /\ ev' = Event("mstart", MStartReturnsEarly(m))
    /\ UNCHANGED <<growthVars, ghostVars, orchVars>>
    /\ UNCHANGED catVars
    /\ UNCHANGED restVars

\* marketScanner.stop() called directly
MStopCall ==
    /\ MStopBody
    /\ ev' = Event("mstop", MStopReturnsEarly(m))
    /\ UNCHANGED <<growthVars, ghostVars, ops, orchVars>>
    /\ UNCHANGED catVars
    /\ UNCHANGED auxVars

\* -------------------------------------------------------------- orchestrator
\* What injected time utilities report: isPremarketTime alone, both
\* isPremarketTime and isMarketNow, isMarketNow alone, neither.
Phases == {"Premarket", "Overlap", "Market", "Closed"}

\* The readings that may follow p in the trading day; both predicates hold
\* for a while where the premarket ends and the session begins.
NextPhases(p) ==
    IF p = "Premarket" THEN {"Overlap", "Market"}
    ELSE IF p = "Overlap" THEN {"Market"}
    ELSE IF p = "Market" THEN {"Closed"} ELSE {"Premarket"}

\* The lifecycle methods a registered service may throw from.
Methods == {"gstart", "gstop", "mstart", "mstop", "cstart", "cstop"}

\* The catalyst windows of the host's clock: 08:00-09:30, 09:30-13:30, the rest.
CatWindows == {"setup", "active", "off"}

TickSlots == 1..MaxTicks

IdleTick ==
    [pc |-> "idle", inPremarket |-> FALSE, inMarket |-> FALSE, catWin |-> "off",
     threw |-> "none", caller |-> "none", at |-> [weekday |-> "Mon", minute |-> 0]]

\* Program points of checkAndToggleServices that run without yielding.
SyncPcs == {"growth", "market", "catalyst", "finally"}

\* Program points at which checkAndToggleServices is suspended at an await
\* of a call that is still pending.
AwaitPcs == {"await_gstart", "await_gstop", "await_mstart"}

\* Program points at which it is suspended at an await of a call that has
\* already settled: it goes on in the next microtask, after the synchronous
\* code of whoever called it.  The market worker's stop() has no await of its
\* own, the catalyst worker's start() and stop() are synchronous, a start()
\* that returns at its guard has fulfilled its promise (await_gnoop,
\* await_mnoop), and a start() or stop() of the growth or the market worker
\* that throws has rejected its promise (rej_growth, rej_market).
YieldPcs ==
    {"await_mstop", "await_cstart", "await_cstop", "await_gnoop", "await_mnoop",
     "rej_growth", "rej_market"}

SyncTicks == {t \in TickSlots : ticks[t].pc \in SyncPcs}
YieldTicks == {t \in TickSlots : ticks[t].pc \in YieldPcs}
IdleTicks == {t \in TickSlots : ticks[t].pc = "idle"}
IdleTickSlot == CHOOSE t \in IdleTicks : \A u \in IdleTicks : t <= u

\* a re-entrancy guard that never returns
TickNeverReturnsEarly(o) == FALSE

\* const { isProcessing } = stateManager.get(); if (isProcessing) return;
TickReturnsEarly(o) == o.isProcessing

\* checkAndToggleServices past its guard, with what it read from the time
\* utilities.  caller tells who called it: orchestrator.start() or the
\* interval timer.
CheckBegin(caller, rd) ==
    [pc |-> "growth", inPremarket |-> rd.inPremarket, inMarket |-> rd.inMarket,
     catWin |-> rd.catWin, threw |-> "none", caller |-> caller, at |-> rd.at]

\* if (!s.isRunning && !s.isStarting)
GrowthShouldStart(st) == ~st.isRunning /\ ~st.isStarting

\* if (!s.isRunning), on the market scanner's getState
MarketShouldStart(st) == ~st.isRunning

\* if (growthScanner.getState().isRunning)
GrowthShouldStop(st) == st.isRunning

\* if (s.isRunning), on the market scanner's getState
MarketShouldStop(st) == st.isRunning

\* if (!s.isRunning), on the catalyst scanner's getState
CatalystShouldStart(st) == ~st.isRunning

\* else if (!s.isWatchlistOnly) in the setup window, else if (s.isWatchlistOnly)
\* in the active window
CatalystShouldSetMode(st, w) ==
    \/ w = "setup" /\ st.isRunning /\ ~st.isWatchlistOnly
    \/ w = "active" /\ st.isRunning /\ st.isWatchlistOnly

\* if (s.isRunning), on the catalyst scanner's getState
CatalystShouldStop(st) == st.isRunning

\* A field of a getState() result as the caller reads it.
Reported(b) == IF b THEN "true" ELSE "false"

\* getState() of each service, the fields the orchestrator's start conditions
\* are about.  The growth scanner returns its whole state; the market
\* scanner's and the catalyst scanner's results have no isStarting field.
GetState(w) ==
    IF w = "growth"
    THEN [isRunning |-> Reported(g.isRunning), isStarting |-> Reported(g.isStarting)]
    ELSE IF w = "market"
    THEN [isRunning |-> Reported(m.isRunning), isStarting |-> "undefined"]
    ELSE [isRunning |-> Reported(cat.isRunning), isStarting |-> "undefined"]

\* A start() of the worker has been called and has not yet settled.  The
\* growth scanner's awaits its status message and its first scan, the market
\* scanner's its first scan and its dashboard; the catalyst scanner's start()
\* is synchronous and has returned before any other code runs.
StartInProgress(w) ==
    IF w = "growth" THEN \E i \in Slots : ops[i].kind \in {"gstatus", "gscan0"}
    ELSE IF w = "market" THEN \E i \in Slots : ops[i].kind \in {"mstart", "mdash"}
    ELSE FALSE

\* What a tick read and what the worker was doing when the tick called its
\* start().
StartRecord(w, pred) ==
    [called |-> TRUE, pred |-> pred, isRunning |-> GetState(w).isRunning,
     isStarting |-> GetState(w).isStarting, inProgress |-> StartInProgress(w)]

NoStart ==
    [called |-> FALSE, pred |-> FALSE, isRunning |-> "false", isStarting |-> "false",
     inProgress |-> FALSE]

StopSlots == 1..MaxStops

\* A caller is still awaiting growthScanner.stop().
GrowthStopPending ==
    \/ \E t \in TickSlots : ticks[t].pc = "await_gstop"
    \/ \E k \in StopSlots : "growth" \in stopOp[k].pending

\* The catch clause of checkAndToggleServices: the rest of the try block is skipped.
Caught(tk, section) ==
    [tk EXCEPT !.pc = "finally", !.threw = section]

Go(tk, pc) == [tk EXCEPT !.pc = pc]

\* Progress through the sequence Premarket, Market, Closed, begun with both
\* workers stopped and none of their operations in flight: P0, M0, C0 on
\* entering a phase, P1, M1, C1 once a tick that read that phase has completed
\* in it (in Premarket: one whose start() of the growth scanner went through,
\* so that the scanner runs), "off" when the sequence is left.
ScnOff ==
    [at |-> "off", aStarted |-> FALSE, aStopped |-> FALSE, bStarted |-> FALSE,
     bEarly |-> FALSE]
ScnBegin == [ScnOff EXCEPT !.at = "P0"]

ScnAfterPhase(q) ==
    IF q = "Premarket"
    THEN IF /\ IdleTicks = TickSlots /\ FreeSlots = Slots
            /\ ~g.isRunning /\ ~g.isStarting /\ ~m.isRunning
         THEN ScnBegin ELSE ScnOff
    ELSE IF scn.at = "P1" /\ q = "Market" THEN [scn EXCEPT !.at = "M0"]
    ELSE IF scn.at = "M1" /\ q = "Closed" THEN [scn EXCEPT !.at = "C0"]
    ELSE ScnOff

ScnAfterTick(tk) ==
    IF scn.at = "P0" /\ tk.inPremarket /\ ~tk.inMarket /\ phase = "Premarket"
    THEN IF scn.aStarted /\ g.isRunning THEN [scn EXCEPT !.at = "P1"] ELSE scn
    ELSE IF scn.at = "M0" /\ tk.inMarket /\ ~tk.inPremarket /\ phase = "Market"
    THEN [scn EXCEPT !.at = "M1"]
    ELSE IF scn.at = "C0" /\ ~tk.inPremarket /\ ~tk.inMarket /\ phase = "Closed"
    THEN [scn EXCEPT !.at = "C1"]
    ELSE scn

\* The mode a catalyst window asks for.
CatMode(w) == IF w = "setup" THEN "watchlist" ELSE "active"

\* The services createOrchestrator may be handed.
Workers == {"growth", "market", "catalyst"}

\* async (service) => { try { await service.stop(); } catch (e) { logger.error } }
StopArrow(threw) == "fulfilled"

\* await Promise.all(...)
PromiseAll(results) == IF "rejected" \in results THEN "rejected" ELSE "resolved"

StopThrows(w) ==
    IF w = "growth" THEN "gstop" \in faults
    ELSE IF w = "market" THEN "mstop" \in faults ELSE "cstop" \in faults

\* getState().isRunning of a registered service
Running(w) ==
    IF w = "growth" THEN g.isRunning ELSE IF w = "market" THEN m.isRunning ELSE cat.isRunning

\* Object.values(services)
Registered == deploy.services

StopSettled == PromiseAll({StopArrow(StopThrows(w)) : w \in Registered})

IdleStop == [pc |-> "idle", pending |-> {}]

\* createOrchestrator(config, services, timeUtils) with every service and with
\* time utilities of the caller's.
Injected == [services |-> Workers, timeUtils |-> "injected", zone |-> 0]

\* ------------------------------------------------------------ specifications
vars ==
    <<sendOnStartup, g, gLive, gHist, ops, ev, alerted, dipped, m, mLive, mHist,
      phase, faults, orch, ticks, stopOp, lastStart, lastTick, scn,
      cat, cLive, catWin, mono, rawStocks, lastScanResult,
      clock, prevStocks, alertCooldowns, mscan, lastDelivered, mLast,
      watchlist, triggered, cscan, cEvery, cNotified, cLast, wall, win, deploy, boot,
      runAt,
      ranked>>

\* The state after createScanner, createMarketService and createOrchestrator.
InitWorkerState ==
    /\ sendOnStartup \in BOOLEAN
    /\ g = GInit
    /\ gLive = {}
    /\ gHist = [runs |-> 0, starts |-> 0, fresh |-> TRUE, scans |-> 0]
    /\ ops = [i \in Slots |-> NoOp]
    /\ ev = Event("none", FALSE)
    /\ alerted = EmptyMap
    /\ dipped = {}
    /\ m = MInit
    /\ mLive = [scan |-> {}, dashboard |-> {}]
    /\ mHist = [runs |-> 0, starts |-> 0, fresh |-> TRUE]
    /\ cat = CInit
    /\ cLive = {}
    /\ mono = [s \in Symbols |-> NotSeen]
    /\ lastScanResult = [alpha |-> <<>>, bear |-> <<>>]
    /\ clock = 1
    /\ prevStocks = [s \in {} |-> NoPrev]
    /\ alertCooldowns = [k \in {} |-> 0]
    /\ mscan = [i \in ScanSlots |-> IdleScan]
    /\ lastDelivered = [t \in {"NEW", "PUMP", "DUMP"} |-> 0]
    /\ mLast = NoStep
    /\ watchlist = [s \in {} |-> Null]
    /\ triggered = {}
    /\ cscan = [i \in CScanSlots |-> IdleCScan]
    /\ cEvery = [t \in TimerIds |-> "none"]
    /\ cNotified = [s \in Symbols |-> 0]
    /\ cLast = NoCStep
    /\ wall = [weekday |-> "Mon", minute |-> 0]
    /\ win = NoReading
    /\ boot = NoScans
    /\ runAt = 0
    /\ ranked = [alpha |-> <<>>, bear |-> <<>>]

\* ... before the market worker has fetched anything.
InitWorkers ==
    /\ InitWorkerState
    /\ rawStocks = <<>>

\* let orchestratorTimer = null; createStateManager({ isProcessing: false })
OrchNew ==
    /\ orch = [isProcessing |-> FALSE, orchestratorTimer |-> NoTimer, live |-> {}]
    /\ ticks = [t \in TickSlots |-> IdleTick]
    /\ stopOp = [k \in StopSlots |-> IdleStop]
    /\ lastStart = [w \in Workers |-> NoStart]
    /\ lastTick = [done |-> FALSE, inMarket |-> FALSE, threw |-> "none"]

InitOrch ==
    /\ OrchNew
    /\ deploy = Injected

\* The engine applied scan by scan.
InitEngine ==
    /\ InitWorkers
    /\ InitOrch
    /\ phase = "Premarket"
    /\ faults = {}
    /\ scn = ScnOff
    /\ catWin = "off"

NextEngine == EngineScan

SpecEngine == InitEngine /\ [][NextEngine]_vars

\* processStockData called as in EngineScan on a series of responses in which
\* no symbol's value ever decreases, every send succeeding; a symbol may be
\* missing from a response.
MonoBatches ==
    UNION {[S -> {RawRow(Num(v), Num(10)) : v \in 0..MaxMono}] : S \in SUBSET Symbols}

MonoAfter(batch, r) ==
    [s \in Symbols |->
        IF s \in DOMAIN batch
        THEN [seen |-> TRUE,
              first |-> IF mono[s].seen THEN mono[s].first
                        ELSE MapRow(batch[s]).premarket_change.v,
              final |-> MapRow(batch[s]).premarket_change.v,
              count |-> mono[s].count + (IF s \in r.sent THEN 1 ELSE 0),
              plusOne |-> IF mono[s].seen THEN mono[s].plusOne ELSE s \in r.sent]
        ELSE mono[s]]

MonoScan ==
    \E batch \in MonoBatches :
        LET r == ProcessStockData(g, sendOnStartup, "ok", GetStocks10(batch), DOMAIN batch)
        IN  /\ \A s \in DOMAIN batch :
                    mono[s].seen => MapRow(batch[s]).premarket_change.v >= mono[s].final
            /\ g' = r.state
            /\ ev' = ScanEvent(g, "ok", batch, r)
            /\ mono' = MonoAfter(batch, r)
            /\ UNCHANGED <<rankVars, alertVars, sniperVars, timeVars, histVars>>
            /\ UNCHANGED <<sendOnStartup, gLive, gHist, ops, ghostVars>>
            /\ UNCHANGED <<marketVars, orchVars, catVars>>

InitMono == InitEngine

NextMono == MonoScan

SpecMono == InitMono /\ [][NextMono]_vars

\* A market worker whose fetch has returned any of the snapshots.
InitRank ==
    /\ InitWorkerState
    /\ ~sendOnStartup
    /\ rawStocks \in MarketSnapshots
    /\ InitOrch
    /\ phase = "Market"
    /\ faults = {}
    /\ scn = ScnOff
    /\ catWin = "off"

NextRank == RankStocks

SpecRank == InitRank /\ [][NextRank]_vars

InitAlerts ==
    /\ InitWorkers
    /\ ~sendOnStartup
    /\ InitOrch
    /\ phase = "Market"
    /\ faults = {}
    /\ scn = ScnOff
    /\ catWin = "off"

\* The market worker's scans as the interval drives them.
NextAlerts ==
    \/ MScanBegin
    \/ \E i \in ScanSlots : MScanFailed(i)
    \/ \E i \in ScanSlots : MScanFetched(i, FallingRowChoices)
    \/ \E i \in ScanSlots : MSendDone(i)
    \/ ClockTick

SpecAlerts == InitAlerts /\ [][NextAlerts]_vars

\* The market worker's scans when each one ends before the interval fires again.
NextAlertsSerial ==
    \/ MScanBeginIdle
    \/ \E i \in ScanSlots : MScanFailed(i)
    \/ \E i \in ScanSlots : MScanFetched(i, AlertRowChoices)
    \/ \E i \in ScanSlots : MSendDone(i)
    \/ ClockTick

SpecAlertsSerial == InitAlerts /\ [][NextAlertsSerial]_vars

\* ------------------------------------------------- market worker: its runs
\* The market worker started and stopped by a client, its scans and alerts as
\* above.  start() awaits its initial scan (and the dashboard update, which
\* touches none of this state) before it creates the timers.
RunRowChoices ==
    {MarketRaw(Num(5), Num(2), Num(10000000), Num(100)),
     MarketRaw(Num(5), Num(2), Num(10000000), Num(98))}

\* No scan is in flight: in this environment the interval never fires while
\* one is.
NoScanPending == \A i \in ScanSlots : mscan[i].pc = "idle"

InitRuns == InitAlerts

\* The client awaits a start() before it calls start() or stop().
NoStartPending == \A i \in Slots : ops[i].kind \notin {"mstart", "mdash"}

NextRuns ==
    \/ NoStartPending /\ MStartCall
    \/ \E i \in Slots : MStartDone(i)
    \/ NoStartPending /\ MStopCall
    \/ NoScanPending /\ \E t \in TimerIds : MTimerFire(t)
    \/ \E i \in ScanSlots : MScanFailed(i)
    \/ \E i \in ScanSlots : MScanFetched(i, RunRowChoices)
    \/ \E i \in ScanSlots : MSendDone(i)
    \/ ClockTick

SpecRuns == InitRuns /\ [][NextRuns]_vars

\* ------------------------------------ the engine from the start of a run
\* What the scans so far returned, after one more: `earlier` tells whether
\* the scans before the latest all returned no rows ("empty") or one of them
\* failed or returned rows with nothing to alert ("other"); `first` is set
\* when the latest scan is the first one that returned candidates.
BootAfter(fetch, batch) ==
    LET candidates == fetch = "ok" /\ AlertsToSend(g.lastReportedChanges, batch) # {}
        kind == IF fetch = "ok" /\ batch = EmptyBatch THEN "empty" ELSE "other"
    IN  IF boot.seen THEN [boot EXCEPT !.first = FALSE]
        ELSE IF candidates THEN [boot EXCEPT !.seen = TRUE, !.first = TRUE]
        ELSE [boot EXCEPT !.earlier = IF boot.earlier = "other" THEN "other" ELSE kind]

\* processStockData called as in EngineScan, from the state start() installs
\* (first-scan flag set, no recorded value), with a record of what the calls so
\* far returned.
BootScan ==
    \E fetch \in {"ok", "throw"}, batch \in Batches :
      \E delivered \in SUBSET AlertsToSend(g.lastReportedChanges, batch) :
        LET r == ProcessStockData(g, sendOnStartup, fetch, GetStocks10(batch), delivered)
        IN  /\ (fetch = "throw" => batch = EmptyBatch)
            /\ g' = r.state
            /\ ev' = ScanEvent(g, fetch, batch, r)
            /\ alerted' = AlertedAfter(batch, r)
            /\ dipped' = DippedAfter(fetch, batch, r)
            /\ boot' = BootAfter(fetch, batch)
            /\ UNCHANGED <<sendOnStartup, gLive, gHist, ops, marketVars, orchVars>>
            /\ UNCHANGED catVars
            /\ UNCHANGED <<mono, rankVars, alertVars, sniperVars, timeVars, runAt, ranked>>

InitBoot == InitEngine

NextBoot == BootScan

SpecBoot == InitBoot /\ [][NextBoot]_vars

\* ------------------------------------------------- catalyst worker: scans
\* Percentages are in tenths of a percent.
FADE_GAP == 40          \* candidate.gap > 4.0
FADE_OPEN_DIFF == -5    \* openDiff < -0.5
BOUNCE_GAP == -80       \* candidate.gap < -8.0
BOUNCE_OPEN_DIFF == 5   \* openDiff > 0.5

CatRow(symbol, row) == [symbol |-> symbol, row |-> row]

\* What getCatalystSetupStocks may resolve with: a gap up, a gap up and a gap
\* down, a gap that is not a number.
SetupChoices ==
    {<<CatRow("X", RawRow(Num(50), Num(1)))>>,
     <<CatRow("X", RawRow(Num(50), Num(1))), CatRow("Y", RawRow(Num(-90), Num(1)))>>,
     <<CatRow("Y", RawRow(Bad, Num(1)))>>}

\* What getMarketStocks may resolve with: X below its open, X below and Y
\* above, X at its open.
ActiveChoices ==
    {<<CatRow("X", MarketRaw(Num(5), Num(-6), Num(10000000), Num(100)))>>,
     <<CatRow("X", MarketRaw(Num(5), Num(-6), Num(10000000), Num(100))),
       CatRow("Y", MarketRaw(Num(5), Num(6), Num(10000000), Num(100)))>>,
     <<CatRow("X", MarketRaw(Num(5), Num(0), Num(10000000), Num(100)))>>}

\* A watchlist rebuilt from the fetched rows alone.
WatchlistReplaced(wl, data) ==
    [s \in {data[i].symbol : i \in DOMAIN data} |->
        MapRow(data[CHOOSE i \in DOMAIN data : data[i].symbol = s].row).premarket_change]

\* A watchlist on which every fetched row replaces the entry of its symbol.
AddToWatchlistOverwrites(wl, data) ==
    LET fetched == {data[i].symbol : i \in DOMAIN data}
        last(s) == CHOOSE i \in DOMAIN data :
                        /\ data[i].symbol = s
                        /\ \A j \in DOMAIN data : data[j].symbol = s => j <= i
    IN  [s \in DOMAIN wl \cup fetched |->
            IF s \in fetched THEN MapRow(data[last(s)].row).premarket_change ELSE wl[s]]

\* results.forEach(s => { if (state.watchlist.has(s.symbol)) return;
\*                        state.watchlist.set(s.symbol, {gap: s.premarket_change, ...}) })
RECURSIVE AddToWatchlist(_, _)
AddToWatchlist(wl, data) ==
    IF data = <<>> THEN wl
    ELSE LET s == Head(data)
             next == IF s.symbol \in DOMAIN wl THEN wl
                     ELSE [x \in DOMAIN wl \cup {s.symbol} |->
                             IF x = s.symbol THEN MapRow(s.row).premarket_change
                             ELSE wl[x]]
         IN  AddToWatchlist(next, Tail(data))

\* The strategy a watchlist candidate matches on a market row.
Strategy(gap, openDiff) ==
    IF Gt(gap, FADE_GAP) /\ Lt(openDiff, FADE_OPEN_DIFF) THEN "FADE"
    ELSE IF Lt(gap, BOUNCE_GAP) /\ Gt(openDiff, BOUNCE_OPEN_DIFF) THEN "BOUNCE"
    ELSE "none"

\* One pass of `for (const s of marketData)` up to its next await: the rows
\* from the first one that triggers, or none.
RECURSIVE NextTrigger(_, _, _)
NextTrigger(data, trig, wl) ==
    IF data = <<>> THEN <<>>
    ELSE LET s == Head(data)
         IN  IF /\ s.symbol \notin trig
                /\ s.symbol \in DOMAIN wl
                /\ Strategy(wl[s.symbol], MapMarketRow(s.row).change_from_open) # "none"
             THEN data
             ELSE NextTrigger(Tail(data), trig, wl)

\* The scan from a point of its loop on: suspended at the send of the next
\* trigger, or finished.
ScanFrom(data, trig, wl) ==
    LET left == NextTrigger(data, trig, wl)
    IN  IF left = <<>> THEN IdleCScan
        ELSE [pc |-> "send", symbol |-> Head(left).symbol, rest |-> Tail(left)]

FreeCScans == {i \in CScanSlots : cscan[i].pc = "idle"}

\* performScan() up to its first await: the mode is read, and Active mode
\* returns at once on an empty watchlist.
SkipsScan(watchlistOnly) == ~watchlistOnly /\ DOMAIN watchlist = {}

PerformScan(watchlistOnly) ==
    IF SkipsScan(watchlistOnly) THEN cscan
    ELSE LET i == CHOOSE i \in FreeCScans : \A j \in FreeCScans : i <= j
         IN  [cscan EXCEPT ![i] =
                [IdleCScan EXCEPT !.pc = IF watchlistOnly THEN "setup" ELSE "market"]]

CanScan(watchlistOnly) == SkipsScan(watchlistOnly) \/ FreeCScans # {}

CStep(kind, noop, mode) ==
    [NoCStep EXCEPT !.kind = kind, !.noop = noop, !.mode = mode]

\* The intervals of the timers after a call that left `live` live.
Intervals(live, timer, mode) ==
    [t \in TimerIds |-> IF t = timer THEN mode
                        ELSE IF t \in live THEN cEvery[t] ELSE "none"]

\* Rows that launch no alert: X gaps up in the premarket and is at its open in
\* the session.
QuietSetups == {<<CatRow("X", RawRow(Num(50), Num(1)))>>}
QuietActives == {<<CatRow("X", MarketRaw(Num(5), Num(0), Num(10000000), Num(100)))>>}

\* start(mode) from its guard to its return: the state, performScan() up to
\* its first await, and setInterval with the mode's period.
CatalystStart(mode) ==
    /\ CStartBody(mode)
    /\ IF CStartReturnsEarly(cat)
       THEN UNCHANGED <<cscan, cEvery, cNotified>>
       ELSE /\ CanScan(mode = "watchlist")
            /\ cscan' = PerformScan(mode = "watchlist")
            /\ cEvery' = Intervals(cLive, CNewTimer, mode)
            /\ cNotified' = [s \in Symbols |-> 0]
    /\ cLast' = CStep("start", CStartReturnsEarly(cat), mode)
    /\ UNCHANGED <<watchlist, triggered>>

\* A client calls catalyst.start(mode).
CatStart(mode) ==
    /\ CatalystStart(mode)
    /\ UNCHANGED <<growthVars, ghostVars, ops, ev, marketVars, orchVars, catWin>>
    /\ UNCHANGED <<baseVars, timeVars>>

\* stop() from its first statement to its return: the timer is cleared, the
\* watchlist and the triggered set are emptied.
CatalystStop ==
    /\ CStopBody
    /\ watchlist' = [s \in {} |-> Null]
    /\ triggered' = {}
    /\ cEvery' = [t \in TimerIds |-> IF t = cat.timer THEN "none" ELSE cEvery[t]]
    /\ cLast' = CStep("stop", FALSE, "none")
    /\ UNCHANGED <<cscan, cNotified>>

\* A client calls catalyst.stop().
CatStop ==
    /\ CatalystStop
    /\ UNCHANGED <<growthVars, ghostVars, ops, ev, marketVars, orchVars, catWin>>
    /\ UNCHANGED <<baseVars, timeVars>>

\* setMode: if (state.isWatchlistOnly !== watchlistOnly) { ...; if (state.isRunning) ...
SetModeRestarts(mode) == cat.isWatchlistOnly # (mode = "watchlist") /\ cat.isRunning

\* setMode(mode) from its test to its return: on a change of mode a running
\* worker scans at once and replaces its timer by one with the mode's period.
CatalystSetMode(mode) ==
    /\ CSetModeBody(mode)
    /\ IF SetModeRestarts(mode)
       THEN /\ CanScan(mode = "watchlist")
            /\ cscan' = PerformScan(mode = "watchlist")
            /\ cEvery' = Intervals(cLive \ {cat.timer}, CNewTimer, mode)
       ELSE UNCHANGED <<cscan, cEvery>>
    /\ cLast' = CStep("setMode", ~SetModeRestarts(mode), mode)
    /\ UNCHANGED <<watchlist, triggered, cNotified>>

\* A client calls catalyst.setMode(mode).
CatSetMode(mode) ==
    /\ CatalystSetMode(mode)
    /\ UNCHANGED <<growthVars, ghostVars, ops, ev, marketVars, orchVars, catWin>>
    /\ UNCHANGED <<baseVars, timeVars>>

\* A live interval timer fires: setInterval(performScan, interval).
CatTimerFire(t) ==
    /\ t \in cLive
    /\ CanScan(cat.isWatchlistOnly)
    /\ cscan' = PerformScan(cat.isWatchlistOnly)
    /\ cLast' = CStep("timer", SkipsScan(cat.isWatchlistOnly),
                      IF cat.isWatchlistOnly THEN "watchlist" ELSE "active")
    /\ UNCHANGED <<watchlist, triggered, cEvery, cNotified>>
    /\ UNCHANGED <<growthVars, ghostVars, ops, ev, marketVars, orchVars, catVars>>
    /\ UNCHANGED <<baseVars, timeVars>>

\* The fetch of scan i rejects: the scan ends in its catch clause.
CatFetchFailed(i) ==
    /\ cscan[i].pc \in {"setup", "market"}
    /\ cscan' = [cscan EXCEPT ![i] = IdleCScan]
    /\ cLast' = [CStep("fetched", TRUE, "none") EXCEPT !.outcome = "throw"]
    /\ UNCHANGED <<watchlist, triggered, cEvery, cNotified>>
    /\ UNCHANGED <<growthVars, ghostVars, ops, ev, marketVars, orchVars, catVars>>
    /\ UNCHANGED <<baseVars, timeVars>>

\* The fetch of scan i resolves with rows of setups or of actives.  In
\* Watchlist mode the rows join the watchlist; in Active mode the loop runs to
\* its first send or to its end.
CatFetched(i, setups, actives) ==
    /\ cscan[i].pc \in {"setup", "market"}
    /\ \/ /\ cscan[i].pc = "setup"
          /\ \E data \in setups :
                /\ watchlist' = AddToWatchlist(watchlist, data)
                /\ cLast' = [CStep("fetched", FALSE, "watchlist") EXCEPT
                                !.outcome = "ok", !.rows = data]
          /\ cscan' = [cscan EXCEPT ![i] = IdleCScan]
       \/ /\ cscan[i].pc = "market"
          /\ \E data \in actives :
                cscan' = [cscan EXCEPT ![i] = ScanFrom(data, triggered, watchlist)]
          /\ cLast' = [CStep("fetched", FALSE, "active") EXCEPT !.outcome = "ok"]
          /\ UNCHANGED watchlist
    /\ UNCHANGED <<triggered, cEvery, cNotified>>
    /\ UNCHANGED <<growthVars, ghostVars, ops, ev, marketVars, orchVars, catVars>>
    /\ UNCHANGED <<baseVars, timeVars>>

Delivered(count) == IF count < 2 THEN count + 1 ELSE count

\* The Notifier's outcomes that sendMessage returns rather than throws.
MarksTriggered(outcome) == outcome \in {"ok", "fail"}

\* telegram.sendMessage(msg) of scan i settles: `state.triggered.add(s.symbol)`
\* follows the await whatever it resolved with; a throw ends the scan.
CatSendDone(i) ==
    /\ cscan[i].pc = "send"
    /\ \E outcome \in {"ok", "fail", "throw"} :
        LET symbol == cscan[i].symbol
            trig == IF MarksTriggered(outcome) THEN triggered \cup {symbol}
                    ELSE triggered
        IN  /\ triggered' = trig
            /\ cscan' = [cscan EXCEPT ![i] =
                            IF outcome = "throw" THEN IdleCScan
                            ELSE ScanFrom(cscan[i].rest, trig, watchlist)]
            /\ cNotified' = IF outcome = "ok"
                            THEN [cNotified EXCEPT ![symbol] = Delivered(@)]
                            ELSE cNotified
            /\ cLast' = [CStep("sent", FALSE, "active") EXCEPT
                            !.symbol = symbol, !.outcome = outcome]
    /\ UNCHANGED <<watchlist, cEvery>>
    /\ UNCHANGED <<growthVars, ghostVars, ops, ev, marketVars, orchVars, catVars>>
    /\ UNCHANGED <<baseVars, timeVars>>

InitCatalyst ==
    /\ InitWorkers
    /\ ~sendOnStartup
    /\ InitOrch
    /\ phase = "Closed"
    /\ faults = {}
    /\ scn = ScnOff
    /\ catWin = "off"

\* The catalyst worker driven by a client and by its timer.
NextCatalyst ==
    \/ \E mode \in {"watchlist", "active"} : CatStart(mode)
    \/ CatStop
    \/ \E mode \in {"watchlist", "active"} : CatSetMode(mode)
    \/ \E t \in TimerIds : CatTimerFire(t)
    \/ \E i \in CScanSlots : CatFetchFailed(i)
    \/ \E i \in CScanSlots : CatFetched(i, SetupChoices, ActiveChoices)
    \/ \E i \in CScanSlots : CatSendDone(i)

SpecCatalyst == InitCatalyst /\ [][NextCatalyst]_vars

\* The same, in an environment where no scan is launched while one is in flight.
NoScanInFlight == \A i \in CScanSlots : cscan[i].pc = "idle"

NextCatalystSerial ==
    \/ NoScanInFlight /\ \E mode \in {"watchlist", "active"} : CatStart(mode)
    \/ CatStop
    \/ NoScanInFlight /\ \E mode \in {"watchlist", "active"} : CatSetMode(mode)
    \/ NoScanInFlight /\ \E t \in TimerIds : CatTimerFire(t)
    \/ \E i \in CScanSlots : CatFetchFailed(i)
    \/ \E i \in CScanSlots : CatFetched(i, SetupChoices, ActiveChoices)
    \/ \E i \in CScanSlots : CatSendDone(i)

SpecCatalystSerial == InitCatalyst /\ [][NextCatalystSerial]_vars

\* ------------------------------------------------------------ time windows
Weekdays == {"Mon", "Tue", "Wed", "Thu", "Fri", "Sat", "Sun"}

\* Minutes of the day, New York time, at and around the edges of the windows
\* as a host in any of the zones reads them.
Minutes ==
    {0, 179, 180, 239, 240, 269, 270, 329, 330, 479, 480, 509, 510, 569, 570, 809, 810,
     1439}

Instants == [weekday : Weekdays, minute : Minutes]

NextWeekday(d) ==
    CASE d = "Mon" -> "Tue" [] d = "Tue" -> "Wed" [] d = "Wed" -> "Thu"
      [] d = "Thu" -> "Fri" [] d = "Fri" -> "Sat" [] d = "Sat" -> "Sun"
      [] d = "Sun" -> "Mon"

\* The minute after an instant.
Later(at) ==
    IF at.minute = 1439 THEN [weekday |-> NextWeekday(at.weekday), minute |-> 0]
    ELSE [at EXCEPT !.minute = @ + 1]

\* What a clock read returns when the read before it returned `at`: the same
\* minute, or the next one.
ReadsAfter(at) == {at} \cup ({Later(at)} \cap Instants)

\* The minutes the host's zone is ahead of New York: none when the process
\* runs with TZ=America/New_York; four hours when it runs in UTC while New
\* York keeps summer time, five hours while it keeps winter time.
HostZones == {0, 240, 300}

\* A string value, and the Date that `new Date()` returns at an instant, as
\* getHours() and getMinutes() read it in the host's zone.
Str(s) == [k |-> "str", s |-> s]

DateOf(at, zone) ==
    [k |-> "date",
     weekday |-> IF at.minute + zone >= 1440 THEN NextWeekday(at.weekday) ELSE at.weekday,
     minute |-> (at.minute + zone) % 1440]

\* n.toString().padStart(2, '0'), as its two digits
Pad2(n) == <<n \div 10, n % 10>>

\* The hour of Intl.DateTimeFormat("en-US", {hour: "2-digit", hour12: false}):
\* the hour after midnight is 24.
Hour24(h) == IF h = 0 THEN 24 ELSE h

\* The digits of the "HH:MM" text the formatter gives.
Hhmm(minute) == Pad2(Hour24(minute \div 60)) \o Pad2(minute % 60)

\* nyNow(): the time of day is formatted from one `new Date()`, the weekday
\* from another.
NyNow(at, atWeekday) == [hhmm |-> Hhmm(at.minute), weekday |-> Str(atWeekday.weekday)]

\* hhmmToMin
HhmmToMin(hhmm) == (hhmm[1] * 10 + hhmm[2]) * 60 + hhmm[3] * 10 + hhmm[4]

\* isWeekend = (weekday) => weekday === "Sat" || weekday === "Sun"
IsWeekend(weekday) == weekday = Str("Sat") \/ weekday = Str("Sun")

\* isTimeInRange
IsTimeInRange(currentTime, startTime, endTime) ==
    /\ HhmmToMin(currentTime) >= HhmmToMin(startTime)
    /\ HhmmToMin(currentTime) < HhmmToMin(endTime)

\* config.premarketHours: "04:00" to "09:30"
PremarketHours == [start |-> <<0, 4, 0, 0>>, end |-> <<0, 9, 3, 0>>]

\* isPremarketNow(premarketHours)
IsPremarketNow(at, atWeekday, premarketHours) ==
    /\ ~IsWeekend(NyNow(at, atWeekday).weekday)
    /\ IsTimeInRange(NyNow(at, atWeekday).hhmm, premarketHours.start, premarketHours.end)

\* a < b on two texts: the first differing character decides
RECURSIVE StrLt(_, _)
StrLt(a, b) ==
    IF a = <<>> \/ b = <<>> THEN Len(a) < Len(b)
    ELSE IF Head(a) # Head(b) THEN Head(a) < Head(b)
    ELSE StrLt(Tail(a), Tail(b))

\* `${now.getHours().toString().padStart(2, '0')}:${now.getMinutes()...}`
CurrentTimeStr(now) == Pad2(now.minute \div 60) \o Pad2(now.minute % 60)

\* const isOffDay = timeUtils.isWeekend(now), with now = timeUtils.getNow()
IsOffDay(now) == IsWeekend(now)

\* !isOffDay && currentTimeStr >= "08:00" && currentTimeStr < "09:30"
InCatalystSetup(now) ==
    /\ ~IsOffDay(now)
    /\ ~StrLt(CurrentTimeStr(now), <<0, 8, 0, 0>>)
    /\ StrLt(CurrentTimeStr(now), <<0, 9, 3, 0>>)

\* !isOffDay && currentTimeStr >= "09:30" && currentTimeStr < "13:30"
InCatalystActive(now) ==
    /\ ~IsOffDay(now)
    /\ ~StrLt(CurrentTimeStr(now), <<0, 9, 3, 0>>)
    /\ StrLt(CurrentTimeStr(now), <<1, 3, 3, 0>>)

CatWindowOf(now) ==
    IF InCatalystSetup(now) THEN "setup"
    ELSE IF InCatalystActive(now) THEN "active"
    ELSE "off"

\* ---------------------------------------------------- orchestrator: polling
\* The three clock reads of one poll under the default time utilities, the
\* clock standing at `at` or moving on by a minute between two of them:
\* nyNow()'s time of day, nyNow()'s weekday, getNow().
ClockReads(at) ==
    UNION {UNION {{<<a, b, c>> : c \in ReadsAfter(b)} : b \in ReadsAfter(a)} :
                a \in ReadsAfter(at)}

\* What the default time utilities give a poll: isPremarketTime from nyNow(),
\* the catalyst window from getNow() in the host's zone.  isMarketNow is not
\* among the sources; it may return either value.
DefaultReadings ==
    {[inPremarket |-> IsPremarketNow(r[1], r[2], PremarketHours),
      inMarket |-> b,
      catWin |-> CatWindowOf(DateOf(r[3], deploy.zone)),
      at |-> r[3]] : r \in ClockReads(wall), b \in BOOLEAN}

\* What injected time utilities give it.
InjectedReadings ==
    {[inPremarket |-> phase \in {"Premarket", "Overlap"},
      inMarket |-> phase \in {"Market", "Overlap"},
      catWin |-> catWin,
      at |-> wall]}

\* const inPremarket = timeUtils.isPremarketTime(config.premarketHours);
\* const inMarket = timeUtils.isMarketNow(); const now = timeUtils.getNow(); ...
Readings == IF deploy.timeUtils = "default" THEN DefaultReadings ELSE InjectedReadings

OFreeTimers == TimerIds \ orch.live

ONewTimer == CHOOSE t \in OFreeTimers : \A u \in OFreeTimers : t <= u

\* orchestrator.start(): no guard.  The check runs up to its first await (or
\* returns at its own guard), then a new interval timer is created and its
\* handle stored over the one that was there.
OrchStart ==
    /\ OFreeTimers # {}
    /\ IF TickReturnsEarly(orch)
       THEN UNCHANGED <<ticks, wall, win>>
       ELSE /\ IdleTicks # {}
            /\ \E rd \in Readings :
                /\ ticks' = [ticks EXCEPT ![IdleTickSlot] = CheckBegin("start", rd)]
                /\ wall' = rd.at
                /\ win' = NoReading
    /\ orch' = [isProcessing |-> TRUE, orchestratorTimer |-> ONewTimer,
                live |-> orch.live \cup {ONewTimer}]
    /\ ev' = Event("orch_start", TickReturnsEarly(orch))
    /\ UNCHANGED <<growthVars, ghostVars, ops, marketVars>>
    /\ UNCHANGED <<phase, faults, stopOp, lastStart, lastTick, scn>>
    /\ UNCHANGED catVars
    /\ UNCHANGED <<baseVars, sniperVars, deploy>>

\* A live interval timer fires checkAndToggleServices.
TickFire ==
    /\ orch.live # {}
    /\ IF TickReturnsEarly(orch)
       THEN /\ ev' = Event("tick", TRUE)
            /\ UNCHANGED <<orch, ticks, wall, win>>
       ELSE /\ IdleTicks # {}
            /\ orch' = [orch EXCEPT !.isProcessing = TRUE]
            /\ \E rd \in Readings :
                /\ ticks' = [ticks EXCEPT ![IdleTickSlot] = CheckBegin("timer", rd)]
                /\ wall' = rd.at
                /\ win' = NoReading
            /\ ev' = Event("tick", FALSE)
    /\ UNCHANGED <<growthVars, ghostVars, ops, marketVars>>
    /\ UNCHANGED <<phase, faults, stopOp, lastStart, lastTick, scn>>
    /\ UNCHANGED catVars
    /\ UNCHANGED <<baseVars, sniperVars, deploy>>

\* The injected time utilities move on to a next reading.
PhaseChange ==
    /\ \E q \in NextPhases(phase) :
        /\ phase' = q
        /\ scn' = ScnAfterPhase(q)
    /\ ev' = Event("phase", FALSE)
    /\ UNCHANGED <<growthVars, ghostVars, ops, marketVars>>
    /\ UNCHANGED <<faults, orch, ticks, stopOp, lastStart, lastTick>>
    /\ UNCHANGED catVars
    /\ UNCHANGED auxVars

\* Section 1 of checkAndToggleServices: the growth scanner, if there is one.
\* start() and stop() are async: one that throws rejects its promise, and the
\* await hands the rejection to the catch clause in a later microtask.
TickGrowth(t) ==
    LET tk == ticks[t]
    IN  /\ tk.pc = "growth"
        /\ IF "growth" \notin Registered
           THEN /\ ticks' = [ticks EXCEPT ![t] = Go(tk, "market")]
                /\ UNCHANGED <<g, gLive, gHist, ops, alerted, dipped, lastStart, scn>>
           ELSE IF tk.inPremarket /\ GrowthShouldStart(g)
           THEN /\ lastStart' = [lastStart EXCEPT !.growth =
                        StartRecord("growth", tk.inPremarket)]
                /\ scn' = [scn EXCEPT !.aStarted = (scn.at # "off")]
                /\ IF "gstart" \in faults
                   THEN /\ ticks' = [ticks EXCEPT ![t] = Go(tk, "rej_growth")]
                        /\ UNCHANGED <<g, gLive, gHist, ops, alerted, dipped>>
                   ELSE /\ GStartBody
                        /\ ticks' = [ticks EXCEPT ![t] = Go(tk,
                                IF GStartReturnsEarly(g) THEN "await_gnoop"
                                ELSE "await_gstart")]
           ELSE IF ~tk.inPremarket /\ GrowthShouldStop(g)
           THEN /\ IF "gstop" \in faults
                   THEN /\ ticks' = [ticks EXCEPT ![t] = Go(tk, "rej_growth")]
                        /\ UNCHANGED <<g, gLive, gHist>>
                   ELSE /\ GStopBody
                        /\ ticks' = [ticks EXCEPT ![t] = Go(tk, "await_gstop")]
                /\ UNCHANGED <<ops, alerted, dipped, lastStart, scn>>
           ELSE /\ ticks' = [ticks EXCEPT ![t] = Go(tk, "market")]
                /\ UNCHANGED <<g, gLive, gHist, ops, alerted, dipped, lastStart, scn>>
        /\ ev' = Event("tick_growth", FALSE)
        /\ UNCHANGED <<sendOnStartup, marketVars, phase, faults, orch, stopOp, lastTick>>
        /\ UNCHANGED catVars
        /\ UNCHANGED auxVars

\* growthScanner.stop() settles for the tick awaiting it: the "stopped" status
\* message has been sent or has failed, and stop has caught any error.
TickGStopDone(t) ==
    /\ ticks[t].pc = "await_gstop"
    /\ ticks' = [ticks EXCEPT ![t].pc = "market"]
    /\ scn' = [scn EXCEPT !.aStopped = (scn.at # "off")]
    /\ ev' = Event("gstop_done", FALSE)
    /\ UNCHANGED <<growthVars, ghostVars, ops, marketVars>>
    /\ UNCHANGED <<phase, faults, orch, stopOp, lastStart, lastTick>>
    /\ UNCHANGED catVars
    /\ UNCHANGED auxVars

\* Section 2 of checkAndToggleServices: the market scanner, if there is one.
\* Both calls are awaited; start() and stop() are async, so one that throws
\* rejects its promise, and stop() has settled by the time it returns.
TickMarket(t) ==
    LET tk == ticks[t]
    IN  /\ tk.pc = "market"
        /\ IF "market" \notin Registered
           THEN /\ ticks' = [ticks EXCEPT ![t] = Go(tk, "catalyst")]
                /\ UNCHANGED <<m, mLive, mHist, ops, scanVars, lastStart, scn>>
           ELSE IF tk.inMarket /\ MarketShouldStart(m)
           THEN /\ lastStart' = [lastStart EXCEPT !.market =
                        StartRecord("market", tk.inMarket)]
                /\ scn' = [scn EXCEPT !.bStarted = (scn.at # "off"),
                                      !.bEarly = @ \/ ((scn.at # "off") /\
                                          (\/ ~scn.aStopped
                                           \/ GrowthStopPending
                                           \/ StartInProgress("growth")))]
                /\ IF "mstart" \in faults
                   THEN /\ ticks' = [ticks EXCEPT ![t] = Go(tk, "rej_market")]
                        /\ UNCHANGED <<m, mLive, mHist, ops, scanVars>>
                   ELSE /\ MStartBody
                        /\ ticks' = [ticks EXCEPT ![t] = Go(tk,
                                IF MStartReturnsEarly(m) THEN "await_mnoop"
                                ELSE "await_mstart")]
           ELSE IF ~tk.inMarket /\ MarketShouldStop(m)
           THEN /\ IF "mstop" \in faults
                   THEN /\ ticks' = [ticks EXCEPT ![t] = Go(tk, "rej_market")]
                        /\ UNCHANGED <<m, mLive, mHist>>
                   ELSE /\ MStopBody
                        /\ ticks' = [ticks EXCEPT ![t] = Go(tk, "await_mstop")]
                /\ UNCHANGED <<ops, scanVars, lastStart, scn>>
           ELSE /\ ticks' = [ticks EXCEPT ![t] = Go(tk, "catalyst")]
                /\ UNCHANGED <<m, mLive, mHist, ops, scanVars, lastStart, scn>>
        /\ ev' = Event("tick_market", FALSE)
        /\ UNCHANGED <<growthVars, ghostVars, phase, faults, orch, stopOp, lastTick>>
        /\ UNCHANGED catVars
        /\ UNCHANGED restVars

\* Section 3 of checkAndToggleServices: the catalyst scanner, if there is one.
\* Its methods are synchronous, so one that throws does so before the await
\* and the catch clause runs at once; start() and stop() are awaited all the
\* same, setMode() is not.
TickCatalyst(t) ==
    LET tk == ticks[t]
    IN  /\ tk.pc = "catalyst"
        /\ IF "catalyst" \notin Registered
           THEN /\ ticks' = [ticks EXCEPT ![t] = Go(tk, "finally")]
                /\ UNCHANGED <<cat, cLive, sniperVars, lastStart>>
           ELSE IF tk.catWin # "off" /\ CatalystShouldStart(cat)
           THEN /\ lastStart' = [lastStart EXCEPT !.catalyst =
                        StartRecord("catalyst", tk.catWin # "off")]
                /\ IF "cstart" \in faults
                   THEN /\ ticks' = [ticks EXCEPT ![t] = Caught(tk, "catalyst")]
                        /\ UNCHANGED <<cat, cLive, sniperVars>>
                   ELSE /\ CatalystStart(CatMode(tk.catWin))
                        /\ ticks' = [ticks EXCEPT ![t] = Go(tk, "await_cstart")]
           ELSE IF CatalystShouldSetMode(cat, tk.catWin)
           THEN /\ CatalystSetMode(CatMode(tk.catWin))
                /\ ticks' = [ticks EXCEPT ![t] = Go(tk, "finally")]
                /\ UNCHANGED lastStart
           ELSE IF tk.catWin = "off" /\ CatalystShouldStop(cat)
           THEN /\ IF "cstop" \in faults
                   THEN /\ ticks' = [ticks EXCEPT ![t] = Caught(tk, "catalyst")]
                        /\ UNCHANGED <<cat, cLive, sniperVars>>
                   ELSE /\ CatalystStop
                        /\ ticks' = [ticks EXCEPT ![t] = Go(tk, "await_cstop")]
                /\ UNCHANGED lastStart
           ELSE /\ ticks' = [ticks EXCEPT ![t] = Go(tk, "finally")]
                /\ UNCHANGED <<cat, cLive, sniperVars, lastStart>>
        /\ ev' = Event("tick_catalyst", FALSE)
        /\ UNCHANGED <<growthVars, ghostVars, ops, marketVars, catWin>>
        /\ UNCHANGED <<phase, faults, orch, stopOp, lastTick, scn>>
        /\ UNCHANGED <<baseVars, timeVars>>

\* Where a tick goes on from an await of a call that had settled: a fulfilled
\* promise takes it to the next section, a rejected one to the catch clause.
Resumed(tk) ==
    IF tk.pc = "rej_growth" THEN Caught(tk, "growth")
    ELSE IF tk.pc = "rej_market" THEN Caught(tk, "market")
    ELSE IF tk.pc = "await_gnoop" THEN Go(tk, "market")
    ELSE IF tk.pc \in {"await_mnoop", "await_mstop"} THEN Go(tk, "catalyst")
    ELSE Go(tk, "finally")

TickResume(t) ==
    /\ ticks[t].pc \in YieldPcs
    /\ ticks' = [ticks EXCEPT ![t] = Resumed(ticks[t])]
    /\ ev' = Event("tick_resume", FALSE)
    /\ UNCHANGED <<growthVars, ghostVars, ops, marketVars>>
    /\ UNCHANGED <<phase, faults, orch, stopOp, lastStart, lastTick, scn>>
    /\ UNCHANGED catVars
    /\ UNCHANGED auxVars

\* The readings that follow phase p and catalyst window w on a clock that
\* passes through a trading day: premarket from 04:00, the setup window from
\* 08:00, the session and the active window from 09:30, the window over at
\* 13:30, the session at 16:00.
NextReadings(p, w) ==
    IF p = "Closed" THEN {<<"Premarket", "off">>}
    ELSE IF p = "Premarket" /\ w = "off" THEN {<<"Premarket", "setup">>}
    ELSE IF p = "Premarket" THEN {<<"Overlap", "active">>, <<"Market", "active">>}
    ELSE IF p = "Overlap" THEN {<<"Market", "active">>}
    ELSE IF w = "active" THEN {<<"Market", "off">>}
    ELSE {<<"Closed", "off">>}

DayReadings ==
    {<<"Closed", "off">>, <<"Premarket", "off">>, <<"Premarket", "setup">>,
     <<"Overlap", "active">>, <<"Market", "active">>, <<"Market", "off">>}

\* The injected time utilities move on through the day.
ClockMoves ==
    /\ \E d \in NextReadings(phase, catWin) :
        /\ phase' = d[1]
        /\ catWin' = d[2]
        /\ scn' = IF d[1] = phase THEN scn ELSE ScnAfterPhase(d[1])
        /\ ev' = Event(IF d[1] = phase THEN "catwin" ELSE "phase", FALSE)
    /\ UNCHANGED <<growthVars, ghostVars, ops, marketVars>>
    /\ UNCHANGED <<faults, orch, ticks, stopOp, lastStart, lastTick>>
    /\ UNCHANGED <<cat, cLive>>
    /\ UNCHANGED auxVars

\* What a poll under the default time utilities read and computed.
Reading(tk) ==
    [done |-> TRUE, weekday |-> tk.at.weekday, minute |-> tk.at.minute,
     inPremarket |-> tk.inPremarket,
     inCatalystSetup |-> tk.catWin = "setup",
     inCatalystActive |-> tk.catWin = "active"]

\* The finally clause: isProcessing is cleared and the callback returns.
TickFinally(t) ==
    LET tk == ticks[t]
    IN  /\ tk.pc = "finally"
        /\ orch' = [orch EXCEPT !.isProcessing = FALSE]
        /\ ticks' = [ticks EXCEPT ![t] = IdleTick]
        /\ lastTick' = [done |-> TRUE, inMarket |-> tk.inMarket, threw |-> tk.threw]
        /\ scn' = ScnAfterTick(tk)
        /\ win' = IF deploy.timeUtils = "default" THEN Reading(tk) ELSE win
        /\ ev' = Event("tick_done", FALSE)
        /\ UNCHANGED <<growthVars, ghostVars, ops, marketVars>>
        /\ UNCHANGED <<phase, faults, stopOp, lastStart>>
        /\ UNCHANGED catVars
        /\ UNCHANGED <<baseVars, sniperVars, wall, deploy>>

\* The slots of stopOp that hold no stop() awaiting its workers.
FreeStops == {k \in StopSlots : stopOp[k].pc # "waiting"}

FreeStop == CHOOSE k \in FreeStops : \A j \in FreeStops : k <= j

\* orchestrator.stop(), up to its await: no guard.  The timer the stored
\* handle names is cleared, whether or not it was cleared before (the handle
\* is never reset), and stop() is called on each registered service in turn,
\* whatever earlier stop() calls are still waiting.  The growth scanner's
\* stop() stays pending while it sends its "stopped" status message;
\* Promise.all settles in a later microtask even when nothing is pending.
\* FreeStops # {} is the bound MaxStops on the calls that wait at once, not a
\* condition of the code.
OrchStopCall ==
    LET pending == IF "growth" \in Registered /\ ~StopThrows("growth") /\ ~GStopReturnsEarly(g)
                   THEN {"growth"} ELSE {}
    IN  /\ FreeStops # {}
        /\ orch' = [orch EXCEPT !.live = @ \ {orch.orchestratorTimer}]
        /\ IF "growth" \in Registered /\ ~StopThrows("growth")
           THEN GStopBody ELSE UNCHANGED <<g, gLive, gHist>>
        /\ IF "market" \in Registered /\ ~StopThrows("market")
           THEN MStopBody ELSE UNCHANGED <<m, mLive, mHist>>
        /\ IF "catalyst" \in Registered /\ ~StopThrows("catalyst")
           THEN CatalystStop ELSE UNCHANGED <<cat, cLive, sniperVars>>
        /\ stopOp' = [stopOp EXCEPT ![FreeStop] = [pc |-> "waiting", pending |-> pending]]
        /\ ev' = Event("orch_stop", FALSE)
        /\ UNCHANGED <<sendOnStartup, ghostVars, ops, catWin>>
        /\ UNCHANGED <<phase, faults, ticks, lastStart, lastTick, scn>>
        /\ UNCHANGED <<baseVars, timeVars>>

\* orchestrator.stop(): the pending service stop() calls of one call settle.
OrchStopDone(k) ==
    /\ stopOp[k].pc = "waiting"
    /\ stopOp' = [stopOp EXCEPT ![k] = [pc |-> StopSettled, pending |-> {}]]
    /\ ev' = Event("orch_stop_done", FALSE)
    /\ UNCHANGED <<growthVars, ghostVars, ops, marketVars>>
    /\ UNCHANGED <<phase, faults, orch, ticks, lastStart, lastTick, scn>>
    /\ UNCHANGED catVars
    /\ UNCHANGED auxVars

\* Time passes between two polls.
TimePasses ==
    /\ \E at \in Instants : at # wall /\ wall' = at
    /\ win' = NoReading
    /\ UNCHANGED <<deploy, catVars>>
    /\ UNCHANGED <<growthVars, ghostVars, ops, ev, marketVars, orchVars>>
    /\ UNCHANGED <<baseVars, sniperVars>>

\* A fetch of one market row whose fields are numbers around the gates,
\* missing, or not numbers.
GateRowChoices ==
    {MarketRaw(rvol, change, value, close) :
        rvol \in {Num(4), Num(5), Null, Bad},
        change \in {Num(-3), Num(-2), Num(1), Num(2), Null, Bad},
        value \in {Num(1000000), Num(10000000), Num(100000000), Null, Bad},
        close \in {Num(1), Num(2), Null, Bad}}

\* A market worker whose fetch has returned one row.
InitGates ==
    /\ InitWorkerState
    /\ ~sendOnStartup
    /\ rawStocks \in {<<row>> : row \in GateRowChoices}
    /\ InitOrch
    /\ phase = "Market"
    /\ faults = {}
    /\ scn = ScnOff
    /\ catWin = "off"

NextGates == RankStocks

SpecGates == InitGates /\ [][NextGates]_vars

\* ---------------------------------------------------------- malformed rows
\* processStockData called as in EngineScan on a response that may hold
\* malformed rows.
RowScan ==
    \E batch \in MalformedBatches :
      \E delivered \in SUBSET AlertsToSend(g.lastReportedChanges, batch) :
        LET r == ProcessStockData(g, sendOnStartup, "ok", GetStocks10(batch), delivered)
        IN  /\ g' = r.state
            /\ ev' = ScanEvent(g, "ok", batch, r)
            /\ UNCHANGED <<sendOnStartup, gLive, gHist, ops, ghostVars>>
            /\ UNCHANGED <<marketVars, orchVars, catVars, auxVars>>

InitRows == InitEngine

NextRows == RowScan

SpecRows == InitRows /\ [][NextRows]_vars

\* The growth worker driven by a client that may call start() and stop() at
\* any time, with its timer firing and its awaits settling in any order.
WorkerBatches ==
    UNION {[S -> {RawRow(Num(MaxVal), Num(10))}] : S \in SUBSET Symbols}

InitWorker == InitEngine

NextWorker ==
    \/ GStartCall
    \/ GStopCall
    \/ GShutdownCall
    \/ \E i \in Slots : GShutdownDone(i)
    \/ \E i \in Slots : GStatusDone(i)
    \/ \E i \in Slots : GScan0Done(i, WorkerBatches)
    \/ \E t \in TimerIds : GTimerFire(t)
    \/ \E i \in Slots : GScanDone(i, WorkerBatches)

SpecWorker == InitWorker /\ [][NextWorker]_vars

\* The growth worker or the market worker driven by a client, their scans
\* fetching few rows.  The two workers are separate objects that share no
\* state, so the client is one that calls one of them and leaves the other
\* as it was built.
LifecycleBatches == {EmptyBatch, [s \in {"X"} |-> RawRow(Num(MaxVal), Num(10))]}

\* No method of the worker has been called.
GrowthNew == gHist = [runs |-> 0, starts |-> 0, fresh |-> TRUE, scans |-> 0]
MarketNew == mHist = [runs |-> 0, starts |-> 0, fresh |-> TRUE]

InitLifecycle == InitEngine

NextLifecycle ==
    \/ MarketNew /\ GStartCall
    \/ MarketNew /\ GStopCall
    \/ MarketNew /\ GShutdownCall
    \/ \E i \in Slots : GShutdownDone(i)
    \/ \E i \in Slots : GStatusDone(i)
    \/ \E i \in Slots : GScan0Done(i, LifecycleBatches)
    \/ \E t \in TimerIds : GTimerFire(t)
    \/ \E i \in Slots : GScanDone(i, LifecycleBatches)
    \/ GrowthNew /\ MStartCall
    \/ GrowthNew /\ MStopCall
    \/ \E i \in ScanSlots : MScanFailed(i)
    \/ \E i \in ScanSlots : MScanFetched(i, QuietRowChoices)
    \/ \E i \in Slots : MStartDone(i)
    \/ \E t \in TimerIds : MTimerFire(t)

SpecLifecycle == InitLifecycle /\ [][NextLifecycle]_vars

\* The orchestrator and its workers.  A poll callback runs from one await to the
\* next without yielding, so nothing else happens while a callback is at a
\* program point of SyncPcs.  The workers' scans fetch no rows, so
\* sendOnStartup has nothing to act on and stays off.
Quiet == SyncTicks = {}

\* orchestrator.stop() awaits a Promise.all whose promises have all settled.
StopSettling == \E k \in StopSlots : stopOp[k].pc = "waiting" /\ stopOp[k].pending = {}

\* No microtask is queued: timers and I/O get their turn.
Calm == YieldTicks = {} /\ ~StopSettling

\* ... and the catalyst worker's fetch has settled: it does so before the next
\* timer fires and before the client's next call.
Still == Calm /\ NoScanInFlight

\* The code that called the poll callback is still running: the client's, when
\* every callback that waits for the next microtask was called by
\* orchestrator.start().
ClientRuns == \A t \in YieldTicks : ticks[t].caller = "start"

OrchBatches == {EmptyBatch}

\* No timer-driven scan of the growth worker is suspended at its fetch.
NoGrowthScan == \A i \in Slots : ops[i].kind # "gscan"

\* The three workers registered, no lifecycle method throwing, the time
\* utilities injected and following one clock through the trading day.  The
\* client calls orchestrator.start() once and leaves the orchestrator polling.
\* The workers' interval timers fire and their scans settle in any order with
\* the polls; the fetch of a worker's timer scan settles before that worker's
\* timer fires again.
InitSystem ==
    /\ InitWorkers
    /\ ~sendOnStartup
    /\ InitOrch
    /\ \E d \in DayReadings : phase = d[1] /\ catWin = d[2]
    /\ faults = {}
    /\ scn = IF phase = "Premarket" THEN ScnBegin ELSE ScnOff

NextSystem ==
    \/ \E t \in TickSlots : TickGrowth(t)
    \/ \E t \in TickSlots : TickMarket(t)
    \/ \E t \in TickSlots : TickCatalyst(t)
    \/ \E t \in TickSlots : TickFinally(t)
    \/ Quiet /\ \E t \in TickSlots : TickResume(t)
    \/ Quiet /\ Still /\ orch.orchestratorTimer = NoTimer /\ OrchStart
    \/ Quiet /\ Still /\ TickFire
    \/ Quiet /\ Still /\ ClockMoves
    \/ Quiet /\ Still /\ \E t \in TickSlots : TickGStopDone(t)
    \/ Quiet /\ Still /\ \E i \in Slots : GStatusDone(i)
    \/ Quiet /\ Still /\ \E i \in Slots : GScan0Done(i, OrchBatches)
    \/ Quiet /\ Still /\ \E i \in ScanSlots : MScanFetched(i, QuietRowChoices)
    \/ Quiet /\ Still /\ \E i \in Slots : MStartDone(i)
    \/ Quiet /\ Still /\ NoGrowthScan /\ \E t \in TimerIds : GTimerFire(t)
    \/ Quiet /\ Still /\ NoScanPending /\ \E t \in TimerIds : MTimerFire(t)
    \/ Quiet /\ Still /\ \E t \in TimerIds : CatTimerFire(t)
    \/ Quiet /\ Still /\ \E i \in Slots : GScanDone(i, OrchBatches)
    \/ Quiet /\ Calm /\ \E i \in CScanSlots : CatFetched(i, QuietSetups, QuietActives)

SpecOrch == InitSystem /\ [][NextSystem]_vars

\* An orchestrator of the growth and the market scanner, which the client
\* starts and stops as often and in whatever order it likes.
InitRestart ==
    /\ InitWorkers
    /\ ~sendOnStartup
    /\ OrchNew
    /\ deploy = [Injected EXCEPT !.services = {"growth", "market"}]
    /\ phase \in Phases
    /\ faults = {}
    /\ scn = IF phase = "Premarket" THEN ScnBegin ELSE ScnOff
    /\ catWin = "off"

NextRestart ==
    \/ \E t \in TickSlots : TickGrowth(t)
    \/ \E t \in TickSlots : TickMarket(t)
    \/ \E t \in TickSlots : TickCatalyst(t)
    \/ \E t \in TickSlots : TickFinally(t)
    \/ Quiet /\ \E t \in TickSlots : TickResume(t)
    \/ Quiet /\ ClientRuns /\ OrchStart
    \/ Quiet /\ Calm /\ TickFire
    \/ Quiet /\ Calm /\ PhaseChange
    \/ Quiet /\ Calm /\ \E t \in TickSlots : TickGStopDone(t)
    \/ Quiet /\ Calm /\ \E i \in Slots : GStatusDone(i)
    \/ Quiet /\ Calm /\ \E i \in Slots : GScan0Done(i, OrchBatches)
    \/ Quiet /\ Calm /\ \E i \in ScanSlots : MScanFetched(i, QuietRowChoices)
    \/ Quiet /\ Calm /\ \E i \in Slots : MStartDone(i)
    \/ Quiet /\ ClientRuns /\ OrchStopCall
    \/ Quiet /\ YieldTicks = {} /\ \E k \in StopSlots : OrchStopDone(k)

SpecRestart == InitRestart /\ [][NextRestart]_vars

\* The three workers registered, one of their lifecycle methods throwing on
\* every call.  The client calls orchestrator.start() once; the catalyst
\* window stays what it is while the run lasts.
InitFaults ==
    /\ InitWorkers
    /\ ~sendOnStartup
    /\ InitOrch
    /\ phase \in Phases
    /\ faults \in {F \in SUBSET Methods : Cardinality(F) = MaxFaults}
    /\ scn = ScnOff
    /\ catWin \in CatWindows

NextFaults ==
    \/ \E t \in TickSlots : TickGrowth(t)
    \/ \E t \in TickSlots : TickMarket(t)
    \/ \E t \in TickSlots : TickCatalyst(t)
    \/ \E t \in TickSlots : TickFinally(t)
    \/ Quiet /\ \E t \in TickSlots : TickResume(t)
    \/ Quiet /\ Still /\ orch.orchestratorTimer = NoTimer /\ OrchStart
    \/ Quiet /\ Still /\ TickFire
    \/ Quiet /\ Still /\ PhaseChange
    \/ Quiet /\ Still /\ \E t \in TickSlots : TickGStopDone(t)
    \/ Quiet /\ Still /\ \E i \in Slots : GStatusDone(i)
    \/ Quiet /\ Still /\ \E i \in Slots : GScan0Done(i, OrchBatches)
    \/ Quiet /\ Still /\ \E i \in ScanSlots : MScanFetched(i, QuietRowChoices)
    \/ Quiet /\ Still /\ \E i \in Slots : MStartDone(i)
    \/ Quiet /\ Calm /\ \E i \in CScanSlots : CatFetched(i, QuietSetups, QuietActives)
    \/ Quiet /\ ClientRuns /\ NoScanInFlight /\ OrchStopCall
    \/ Quiet /\ YieldTicks = {} /\ \E k \in StopSlots : OrchStopDone(k)

SpecFaults == InitFaults /\ [][NextFaults]_vars

\* An orchestrator of the growth and the market scanner, polling for good: no
\* lifecycle method throws, the "started" status message is delivered, and
\* nobody calls stop() on the orchestrator.  The scanners' interval timers
\* fire and their scans settle and write their state back; the fetch of a
\* worker's timer scan settles before that worker's timer fires again.  The
\* premarket comes round again only while the growth scanner has been started
\* fewer than MaxRuns times, and ends only while the market scanner has.
StatusReturned(i) == GStatusDone(i) /\ ev'.kind = "gstart_status"

PremarketMayReturn ==
    /\ phase = "Closed" => gHist.runs < MaxRuns
    /\ phase = "Premarket" => mHist.runs < MaxRuns

\* A poll callback goes on from where it is.
TickStep ==
    \/ \E t \in TickSlots : TickGrowth(t)
    \/ \E t \in TickSlots : TickMarket(t)
    \/ \E t \in TickSlots : TickCatalyst(t)
    \/ \E t \in TickSlots : TickFinally(t)
    \/ Quiet /\ \E t \in TickSlots : TickResume(t)

\* The operation suspended in a slot settles.
Settle(i) ==
    \/ StatusReturned(i)
    \/ GScan0Done(i, OrchBatches)
    \/ GScanDone(i, OrchBatches)
    \/ MStartDone(i)

InitPolling ==
    /\ InitWorkers
    /\ ~sendOnStartup
    /\ OrchNew
    /\ deploy = [Injected EXCEPT !.services = {"growth", "market"}]
    /\ phase \in Phases
    /\ faults = {}
    /\ scn = ScnOff
    /\ catWin = "off"

NextPolling ==
    \/ \E t \in TickSlots : TickGrowth(t)
    \/ \E t \in TickSlots : TickMarket(t)
    \/ \E t \in TickSlots : TickCatalyst(t)
    \/ \E t \in TickSlots : TickFinally(t)
    \/ Quiet /\ \E t \in TickSlots : TickResume(t)
    \/ Quiet /\ Still /\ orch.orchestratorTimer = NoTimer /\ OrchStart
    \/ Quiet /\ Still /\ TickFire
    \/ Quiet /\ Still /\ PremarketMayReturn /\ PhaseChange
    \/ Quiet /\ Still /\ \E t \in TickSlots : TickGStopDone(t)
    \/ Quiet /\ Still /\ \E i \in Slots : StatusReturned(i)
    \/ Quiet /\ Still /\ \E i \in Slots : GScan0Done(i, OrchBatches)
    \/ Quiet /\ Still /\ NoGrowthScan /\ \E t \in TimerIds : GTimerFire(t)
    \/ Quiet /\ Still /\ \E i \in Slots : GScanDone(i, OrchBatches)
    \/ Quiet /\ Still /\ \E i \in ScanSlots : MScanFetched(i, QuietRowChoices)
    \/ Quiet /\ Still /\ \E i \in Slots : MStartDone(i)
    \/ Quiet /\ Still /\ NoScanPending /\ \E t \in TimerIds : MTimerFire(t)

\* The event loop runs every callback that is ready: the poll timer keeps
\* firing, a callback that can go on does, and every awaited call and every
\* fetch settles, whatever else is pending.
FairPolling ==
    /\ WF_vars(TickStep)
    /\ WF_vars(Quiet /\ Still /\ orch.orchestratorTimer = NoTimer /\ OrchStart)
    /\ WF_vars(Quiet /\ Still /\ TickFire)
    /\ WF_vars(Quiet /\ Still /\ \E t \in TickSlots : TickGStopDone(t))
    /\ \A i \in Slots : WF_vars(Quiet /\ Still /\ Settle(i))
    /\ \A i \in ScanSlots : WF_vars(Quiet /\ Still /\ MScanFetched(i, QuietRowChoices))

SpecPolling == InitPolling /\ [][NextPolling]_vars /\ FairPolling

\* No cap of the model holds up a step of the program under SpecPolling: a
\* poll that is about to call start() finds a free slot and a run left, and a
\* start() whose first scan settles finds a timer id nothing refers to.
PollingNeverCapped ==
    /\ \A t \in TickSlots :
            (ticks[t].pc = "growth" /\ ticks[t].inPremarket /\ GrowthShouldStart(g))
                => FreeSlots # {} /\ gHist.runs < MaxRuns
    /\ \A t \in TickSlots :
            (ticks[t].pc = "market" /\ ticks[t].inMarket /\ MarketShouldStart(m))
                => FreeSlots # {} /\ FreeScanSlots # {} /\ mHist.runs < MaxRuns
    /\ (\E i \in Slots : ops[i].kind = "gscan0") => GFreeTimers # {}
    /\ (\E i \in Slots : ops[i].kind = "mdash") => MFreeTimers # {}
    /\ IdleTicks # {}

\* An orchestrator built with the catalyst scanner alone and the default time
\* utilities, on a host in one of the zones, started once and left polling
\* while time passes.  The scanner's fetches resolve with rows that launch no
\* alert, or reject.
InitWindows ==
    /\ InitWorkers
    /\ ~sendOnStartup
    /\ OrchNew
    /\ deploy \in [services : {{"catalyst"}}, timeUtils : {"default"}, zone : HostZones]
    /\ phase = "Closed"
    /\ faults = {}
    /\ scn = ScnOff
    /\ catWin = "off"

NextWindows ==
    \/ \E t \in TickSlots : TickGrowth(t)
    \/ \E t \in TickSlots : TickMarket(t)
    \/ \E t \in TickSlots : TickCatalyst(t)
    \/ \E t \in TickSlots : TickFinally(t)
    \/ Quiet /\ \E t \in TickSlots : TickResume(t)
    \/ Quiet /\ Still /\ orch.orchestratorTimer = NoTimer /\ OrchStart
    \/ Quiet /\ Still /\ TickFire
    \/ Quiet /\ Still /\ TimePasses
    \/ Quiet /\ Calm /\ \E i \in CScanSlots : CatFetchFailed(i)
    \/ Quiet /\ Calm /\ \E i \in CScanSlots : CatFetched(i, QuietSetups, QuietActives)

SpecWindows == InitWindows /\ [][NextWindows]_vars

\* ------------------------------------------------------- the engine's claims
ScanKinds == {"scan", "gstart_done"}

\* The symbols the latest step sent a notification for.
SentSymbols == {n.symbol : n \in ev.sent}

\* The change the latest scan's batch carries for symbol s.
Current(s) == MapRow(ev.batch[s]).premarket_change.v

\* The gate-passing symbols of the latest scan's batch.
Candidates == {s \in DOMAIN ev.batch : PassesGates(MapRow(ev.batch[s]))}

\* C7 as stated: in a scan that is not suppressed (sendOnStartup set, or not
\* the first scan), a candidate that passes the gates is notified if and only
\* if the map given to the scan holds no value for it or its current value is
\* at least that value plus the step.
C7_NotifiedIffStep ==
    (ev.kind = "scan" /\ ev.fetch = "ok" /\ (sendOnStartup \/ ~ev.first)) =>
        \A s \in Candidates :
            s \in SentSymbols <=>
                (s \notin DOMAIN ev.last \/ Current(s) >= ev.last[s] + Step)

\* No scan notifies a symbol at a value below the value of its latest
\* delivered notification plus the step, whatever lower values were seen in
\* between.
NoRealertBelowStep ==
    [][\A n \in ev'.sent :
            n.symbol \in DOMAIN alerted => n.change >= alerted[n.symbol] + Step]_vars

\* A symbol that dipped below its alerted value came back to a value at or above
\* it but short of the next step, and the scan sent nothing for it.
DippedAndBack ==
    /\ ev.kind = "scan" /\ ev.fetch = "ok"
    /\ \E s \in dipped \cap Candidates :
            /\ Current(s) >= alerted[s]
            /\ Current(s) < alerted[s] + Step
            /\ s \notin SentSymbols

\* The value the state records for symbol s, or -1 when it records none.
LastValue(st, s) ==
    IF s \in DOMAIN st.lastReportedChanges THEN st.lastReportedChanges[s] ELSE -1

\* A scan changes a symbol's recorded value only if it sent a notification for
\* the symbol and the send returned success, or if the scan was the suppressed
\* first scan and the symbol was due an alert; a symbol whose send failed or
\* threw keeps its recorded value.
LastValueOnlyOnSuccess ==
    [][\A s \in Symbols :
        /\ (LastValue(g', s) # LastValue(g, s)) =>
                \/ s \in ev'.ok
                \/ /\ ev'.first /\ ~sendOnStartup
                   /\ s \in AlertsToSend(ev'.last, ev'.batch)
        /\ (s \in SentSymbols' \ ev'.ok) => LastValue(g', s) = LastValue(g, s)]_vars

\* A scan has sent a notification, or has recorded a value.
SentOrRecorded == ev.sent # {} \/ g.lastReportedChanges # EmptyMap

\* The whole steps between a symbol's first and latest value.
WholeSteps(s) == (mono[s].final - mono[s].first) \div Step

PlusOne(s) == IF mono[s].plusOne THEN 1 ELSE 0

\* C12 as stated: over a series of scans in which a symbol's value never
\* decreases, the notifications sent for it number the whole steps between its
\* first and its latest value, plus one if its first sighting was notified.
C12_StepCountExact ==
    \A s \in Symbols : mono[s].seen => mono[s].count = WholeSteps(s) + PlusOne(s)

\* C13 as stated: with sendOnStartup on, a symbol that was seen before and is
\* now a step or more above the value it had at its latest sighting is sent a
\* step alert whose text carries a repeat count of at least 2 and that value
\* as the previous one.
C13_StepLabelled ==
    [][\A s \in DOMAIN ev'.batch :
        (/\ sendOnStartup
         /\ mono[s].seen
         /\ MapRow(ev'.batch[s]).premarket_change.v >= mono[s].final + Step) =>
            \E n \in ev'.sent :
                /\ n.symbol = s /\ n.isUpdate
                /\ n.step >= 2 /\ n.prevChange = mono[s].final]_vars

\* A raw row with a required field that is missing or not a finite number.
FailsValidation(row) ==
    \/ row.s # "named"
    \/ row.change.k # "num" \/ row.float.k # "num" \/ row.volume.k # "num"

\* C16 as stated: in a cycle whose batch holds a row with a missing or
\* non-finite required field, that row is dropped (it is neither notified nor
\* recorded), and every other row of the batch that passes the gates and is
\* due an alert is still handled: notified when the cycle sends, recorded when
\* the cycle is the suppressed first one.
C16_InvalidRowDropped ==
    (ev.kind = "scan" /\ \E x \in DOMAIN ev.batch : FailsValidation(ev.batch[x])) =>
        \A s \in DOMAIN ev.batch :
            IF FailsValidation(ev.batch[s])
            THEN /\ s \notin SentSymbols
                 /\ LastValue(g, s) = LastValue([lastReportedChanges |-> ev.last], s)
            ELSE (s \in AlertsToSend(ev.last, ev.batch)) =>
                    \/ s \in SentSymbols
                    \/ (ev.first /\ ~sendOnStartup /\ LastValue(g, s) # -1)

\* A raw market field that is present and at least n.
AtLeast(x, n) == x.k = "num" /\ x.v >= n

\* The momentum gates as the rules state them: every field present, relative
\* volume >= 5, change from open >= 2, value traded >= 10M, price >= 2.
PassesUpGates(row) ==
    /\ AtLeast(row.rvol_intraday_5m, 5) /\ AtLeast(row.change_from_open, 2)
    /\ AtLeast(row.value_traded, 10000000) /\ AtLeast(row.close, 2)

\* The falling gates as the rules state them: change from open <= -2, value
\* traded >= 50M.
PassesDownGates(row) ==
    /\ row.change_from_open.k = "num" /\ row.change_from_open.v <= -2
    /\ AtLeast(row.value_traded, 50000000)

\* The ranked list holds the positions of the rows that pass its gates, best
\* score first, equal scores in snapshot order, cut to TOP_N.
RankedAsStated(name) ==
    LET list == ranked[name]
        Passes(row) == IF name = "alpha" THEN PassesUpGates(row) ELSE PassesDownGates(row)
        qualify == {i \in 1..Len(rawStocks) : Passes(rawStocks[i])}
        members == {list[p] : p \in 1..Len(list)}
        sc(i) == ScoreOf(name, rawStocks[i]).v
        Before(i, j) == sc(i) > sc(j) \/ (sc(i) = sc(j) /\ i < j)
    IN  /\ members \subseteq qualify
        /\ Cardinality(members) = Len(list)
        /\ Len(list) = IF Cardinality(qualify) < TOP_N THEN Cardinality(qualify) ELSE TOP_N
        /\ \A p, q \in 1..Len(list) : p < q => Before(list[p], list[q])
        /\ \A i \in qualify \ members : \A j \in members : Before(j, i)

\* C20 as stated: each ranked list holds exactly the rows whose required
\* fields are present and that pass every gate, by score descending with ties
\* in snapshot order, cut to five; a row with no score is in neither list.
C20_RankedLists ==
    ev.kind = "mscan_ranked" =>
    /\ RankedAsStated("alpha")
    /\ RankedAsStated("bear")

\* The part of C20 the code keeps: when every field of every row is a number
\* or missing, the lists are as stated.
C20_RankedNumericRows ==
    (/\ ev.kind = "mscan_ranked"
     /\ \A i \in 1..Len(rawStocks) : \A f \in DOMAIN rawStocks[i] :
                rawStocks[i][f].k \in {"num", "null"})
        => RankedAsStated("alpha") /\ RankedAsStated("bear")

\* The positions a ranked list holds.
Members(name) == {ranked[name][p] : p \in 1..Len(ranked[name])}

\* C21 as stated: after the ranking step of a scan no row is in both the up
\* (alpha) list and the down (bear) list.
C21_ListsDisjoint ==
    ev.kind = "mscan_ranked" => Members("alpha") \cap Members("bear") = {}

\* The part of C21 the code keeps: a row whose change from open is a number
\* or missing is in at most one list.
C21_NumericChangeDisjoint ==
    (/\ ev.kind = "mscan_ranked"
     /\ \A i \in 1..Len(rawStocks) : rawStocks[i].change_from_open.k \in {"num", "null"})
        => Members("alpha") \cap Members("bear") = {}

\* C22 as stated: a NEW or PUMP notification is delivered only if none of the
\* same type was delivered less than the cooldown window before it, and a
\* triggered NEW or PUMP alert is skipped only if one was.
C22_CooldownRespected ==
    /\ (mLast.kind = "sent" /\ mLast.outcome = "ok" /\ mLast.type \in {"NEW", "PUMP"}
            /\ mLast.prior # 0)
        => mLast.now - mLast.prior >= COOLDOWN_MS
    /\ \A t \in mLast.suppressed :
            t \in {"NEW", "PUMP"} /\ lastDelivered[t] # 0
                /\ mLast.now - lastDelivered[t] < COOLDOWN_MS

\* The part of C22 the code keeps, read as a property of scans that do not
\* overlap: the same statement under SpecAlertsSerial.
C22_CooldownRespectedSerial ==
    /\ (mLast.kind = "sent" /\ mLast.outcome = "ok" /\ mLast.type \in {"NEW", "PUMP"}
            /\ mLast.prior # 0)
        => mLast.now - mLast.prior >= COOLDOWN_MS
    /\ \A t \in mLast.suppressed :
            lastDelivered[t] # 0 /\ mLast.now - lastDelivered[t] < COOLDOWN_MS

\* C23: every scan that runs to its end with X ranked up, a previous price
\* above zero and a price change since the previous snapshot of at most the
\* dump threshold has called the notifier with a reversal (DUMP) alert,
\* whatever the cooldowns hold.
C23_ReversalNeverCooled ==
    (/\ mLast.fin /\ mLast.rankedUp /\ mLast.prevPrice > 0
     /\ (mLast.price - mLast.prevPrice) * 100 <= DUMP_THRESHOLD * mLast.prevPrice)
        => "DUMP" \in mLast.tried

\* A reversal notification was delivered although one had been delivered less
\* than a cooldown window before it.
C23_Witness ==
    /\ mLast.kind = "sent" /\ mLast.type = "DUMP" /\ mLast.outcome = "ok"
    /\ mLast.prior # 0 /\ mLast.now - mLast.prior < COOLDOWN_MS

\* C24: between a start() of the catalyst worker and its next stop(), at most
\* one trigger notification is delivered for any one symbol.
C24_OneTriggerPerSymbol == \A s \in Symbols : cNotified[s] <= 1

\* The same when no scan is launched while another is in flight; a delivered
\* trigger leaves its symbol in the triggered set unless stop() came between.
C24_OneTriggerPerSymbolSerial ==
    /\ \A s \in Symbols : cNotified[s] <= 1
    /\ (cLast.kind = "sent" /\ cLast.outcome = "ok") => cLast.symbol \in triggered

\* C25: a setMode() call leaves the watchlist and the triggered set as they
\* were, and a step that removes an entry of either is a stop(), which leaves
\* both empty.
C25_SetModeKeepsSets ==
    [][/\ cLast'.kind = "setMode" => (watchlist' = watchlist /\ triggered' = triggered)
       /\ ((DOMAIN watchlist \ DOMAIN watchlist' # {}) \/ (triggered \ triggered' # {}))
            => (cLast'.kind = "stop" /\ DOMAIN watchlist' = {} /\ triggered' = {})]_vars

\* A running worker has switched mode with a symbol on the watchlist that has
\* already triggered.
C25_Witness ==
    /\ cLast.kind = "setMode" /\ ~cLast.noop
    /\ triggered # {} /\ triggered \subseteq DOMAIN watchlist

\* The scans of the catalyst worker that are suspended at a fetch of a mode.
Fetching(scans, watchlistOnly) ==
    {i \in CScanSlots : scans[i].pc = IF watchlistOnly THEN "setup" ELSE "market"}

\* C26: a setMode() that changes the mode of a running catalyst worker starts
\* one scan in the new mode within the call (an Active scan of an empty
\* watchlist ends at once without a fetch), cancels the old timer and leaves
\* exactly one live timer, which has the new mode's interval.
C26_SetModeRestarts ==
    [][(/\ cLast'.kind = "setMode"
        /\ cat.isRunning
        /\ cat'.isWatchlistOnly # cat.isWatchlistOnly)
       => /\ cat.timer \notin cLive'
          /\ cLive' = {cat'.timer}
          /\ cEvery'[cat'.timer] = cLast'.mode
          /\ cat'.isWatchlistOnly = (cLast'.mode = "watchlist")
          /\ Cardinality(Fetching(cscan', cat'.isWatchlistOnly)) =
                Cardinality(Fetching(cscan, cat'.isWatchlistOnly))
                    + (IF ~cat'.isWatchlistOnly /\ DOMAIN watchlist = {} THEN 0 ELSE 1)
          /\ \A i \in CScanSlots : cscan[i] # IdleCScan => cscan'[i] = cscan[i]]_vars

\* A running worker has switched to Active mode with a candidate on the
\* watchlist: its scan is fetching and its timer has the Active interval.
C26_Witness ==
    /\ cLast.kind = "setMode" /\ ~cLast.noop /\ cLast.mode = "active"
    /\ DOMAIN watchlist # {}
    /\ Fetching(cscan, FALSE) # {}
    /\ cat.isRunning /\ cEvery[cat.timer] = "active"

\* C27: a symbol joins the triggered set only in the step in which the
\* Notifier reports success for that symbol's trigger notification.
C27_TriggeredOnlyOnSuccess ==
    [][\A s \in triggered' \ triggered :
            cLast'.kind = "sent" /\ cLast'.symbol = s /\ cLast'.outcome = "ok"]_vars

\* A symbol joins the triggered set only when a send for it settles, and a
\* send that throws adds nothing.
C27_TriggeredOnlyAfterSend ==
    [][/\ \A s \in triggered' \ triggered :
            cLast'.kind = "sent" /\ cLast'.symbol = s /\ cLast'.outcome # "throw"
       /\ (cLast'.kind = "sent" /\ cLast'.outcome = "throw") => triggered' = triggered]_vars

\* The catalyst window an instant is in as stated: setup on a weekday from
\* 08:00 to 09:30, active on a weekday from 09:30 to 13:30, none otherwise.
StatedWindow(weekday, minute) ==
    IF weekday \in {"Sat", "Sun"} THEN "off"
    ELSE IF minute >= 480 /\ minute < 570 THEN "setup"
    ELSE IF minute >= 570 /\ minute < 810 THEN "active"
    ELSE "off"

\* The catalyst worker is in the state a window asks for.
Follows(st, w) ==
    IF w = "off" THEN ~st.isRunning
    ELSE st.isRunning /\ st.isWatchlistOnly = (w = "setup")

\* C28: after a poll has completed, the catalyst worker runs in watchlist mode
\* if the poll's instant is a weekday from 08:00 to 09:30, in active mode if it
\* is a weekday from 09:30 to 13:30, and does not run at any other instant.
C28_CatalystFollowsWindow ==
    win.done => Follows(cat, StatedWindow(win.weekday, win.minute))

\* The same on the clock alone, whatever the day of the week, on a host whose
\* clock reads New York time.
C28_CatalystFollowsClock ==
    (win.done /\ deploy.zone = 0) => Follows(cat, StatedWindow("Mon", win.minute))

\* After a poll has completed the worker is in the state that the windows the
\* poll computed ask for, in whatever zone the host is.
C28_CatalystFollowsReading ==
    win.done => Follows(cat, IF win.inCatalystSetup THEN "setup"
                             ELSE IF win.inCatalystActive THEN "active" ELSE "off")

\* C29: at an instant of a Saturday or a Sunday the premarket predicate and
\* both catalyst windows are false, and the poll leaves the worker stopped.
C29_WeekendAllOff ==
    (win.done /\ win.weekday \in {"Sat", "Sun"})
        => /\ ~win.inPremarket
           /\ ~win.inCatalystSetup
           /\ ~win.inCatalystActive
           /\ ~cat.isRunning

\* The premarket predicate is false on a Saturday and a Sunday and true on
\* the other days from 04:00 to 09:30, up to the minute that may pass between
\* the clock reads of one poll.
C29_PremarketWeekdaysOnly ==
    win.done =>
        /\ win.inPremarket =>
                /\ win.weekday \notin {"Sat", "Sun"}
                /\ win.minute >= 240 /\ win.minute <= 570
        /\ (/\ win.weekday \notin {"Sat", "Sun"}
            /\ win.minute > 240 /\ win.minute < 570) => win.inPremarket

\* C31: a worker has a live scan timer only while it reports isRunning, and
\* never more than one.
C31_TimerOnlyWhileRunning ==
    /\ gLive # {} => g.isRunning
    /\ Cardinality(gLive) <= 1
    /\ mLive.scan # {} => m.isRunning
    /\ Cardinality(mLive.scan) <= 1
    /\ cLive # {} => cat.isRunning
    /\ Cardinality(cLive) <= 1

\* The growth worker's part.
C31_GrowthTimer == (gLive # {} => g.isRunning) /\ Cardinality(gLive) <= 1

\* The catalyst worker's part: its one live timer is the one in state.timer.
C31_CatalystTimer == (cLive # {} => cat.isRunning) /\ cLive \subseteq {cat.timer}

\* In the first run of a growth worker, before any stop(), no scan notifies a
\* symbol at a value below the value of its latest delivered notification plus
\* the step.
NoRealertInRun ==
    [][(ev'.kind \in ScanKinds /\ gHist'.fresh /\ gHist'.runs = 1) =>
            \A n \in ev'.sent :
                n.symbol \in DOMAIN alerted => n.change >= alerted[n.symbol] + Step]_vars

\* C9 as stated: with sendOnStartup off, a scan that runs with the first-scan flag set
\* sends nothing and leaves every candidate's current value recorded, so that
\* the same rows scanned again send nothing.
C9_BootstrapSilent ==
    (ev.kind = "scan" /\ ev.fetch = "ok" /\ ev.first /\ ~sendOnStartup) =>
        /\ ev.sent = {}
        /\ \A s \in Candidates :
                s \in DOMAIN g.lastReportedChanges /\ g.lastReportedChanges[s] = Current(s)
        /\ \A delivered \in SUBSET Symbols :
                ProcessStockData(g, sendOnStartup, "ok", GetStocks10(ev.batch),
                                  delivered).sent = {}

\* ------------------------------------------------------ the workers' claims
GStartInFlight == \E i \in Slots : ops[i].kind \in {"gstatus", "gscan0"}
MStartInFlight == \E i \in Slots : ops[i].kind \in {"mstart", "mdash"}

\* A start() on a running or starting worker, or a stop() on a worker that is
\* not running, leaves the worker's state, its timers and the operations in
\* flight as they were and sends no status message.
NoopFrame ==
    /\ (ev'.kind = "gstart" /\ (g.isRunning \/ g.isStarting)) =>
            /\ g' = g /\ gLive' = gLive /\ ops' = ops
            /\ gHist'.runs = gHist.runs /\ ev'.status = "none"
    /\ (ev'.kind = "gstop" /\ ~g.isRunning) =>
            /\ g' = g /\ gLive' = gLive /\ ops' = ops /\ ev'.status = "none"
    /\ (ev'.kind = "mstart" /\ m.isRunning) =>
            /\ m' = m /\ mLive' = mLive /\ ops' = ops
            /\ mHist'.runs = mHist.runs /\ ev'.status = "none"
    /\ (ev'.kind = "mstop" /\ ~m.isRunning) =>
            /\ m' = m /\ mLive' = mLive /\ ops' = ops /\ ev'.status = "none"

\* Two or more start() calls on a new worker, once the start has settled: one
\* live timer of each kind, one start that passed the guard.
TwoStarts ==
    /\ (gHist.fresh /\ gHist.starts = 2 /\ ~GStartInFlight) =>
            Cardinality(gLive) = 1 /\ gHist.runs = 1
    /\ (mHist.fresh /\ mHist.starts = 2 /\ ~MStartInFlight) =>
            /\ Cardinality(mLive.scan) = 1 /\ Cardinality(mLive.dashboard) = 1
            /\ mHist.runs = 1

\* C6: lifecycle calls are idempotent.  start() on a running or starting
\* worker and stop() on a worker that is not running change no state, no
\* timer and send no status message; two start() calls in a row on a new worker
\* leave one live scan timer and one "started" message.
C6_LifecycleIdempotent == [][NoopFrame /\ TwoStarts']_vars

\* A new market worker was started twice in a row: the second start()
\* returned at its guard while the first awaited its initial scan, and the
\* first has since created its timers.
C6_Witness ==
    /\ ev.kind = "mstart_done" /\ m.isRunning
    /\ mHist.fresh /\ mHist.starts = 2 /\ ~MStartInFlight
    /\ mLast.kind = "fetched"

\* The same of a new growth worker: the latest call was a start() that
\* returned at its guard.
TwoGrowthStarts ==
    /\ ev.kind = "gstart" /\ ev.noop /\ g.isRunning
    /\ gHist.fresh /\ gHist.starts = 2 /\ ~GStartInFlight

\* C17 as stated, for the growth worker: at most one scan (the initial scan
\* of start() or a timer-driven scan) is suspended at its fetch or its sends
\* at any time.
C17_OneScanInFlight ==
    Cardinality({i \in Slots : ops[i].kind \in {"gscan0", "gscan"}}) <= 1

\* C18 as stated: a timer-driven scan that completes while the worker is
\* stopped (stop() has run since the scan began and no start() is under way)
\* changes nothing: the worker still reports isRunning = false, holds no
\* timer, and its recorded values and first-scan flag are as stop() left them.
C18_StoppedScanDiscarded ==
    [][\A i \in Slots :
        (ops[i].kind = "gscan" /\ ops'[i].kind = "none"
            /\ ~g.isRunning /\ ~g.isStarting) =>
                /\ ~g'.isRunning
                /\ g'.scanTimer = NoTimer
                /\ g'.lastReportedChanges = g.lastReportedChanges
                /\ g'.isFirstScan = g.isFirstScan]_vars

\* C19 as stated: the market worker issues a fetch from its scan timer only
\* while it is running, that is, never between a stop() that has resolved and
\* the next call of start().
C19_NoFetchAfterStop ==
    [][ev'.kind = "mscan_fetch" => m.isRunning]_vars

\* C15: a timer-driven scan whose fetch throws sends nothing and returns the
\* recorded values it read; when no other call changed the worker's state
\* while the scan was in flight, the worker's state after the scan differs
\* from its state before only in the first-scan flag, and its timers are as
\* they were, so a running worker stays running with its timer live.
C15_FetchErrorContained ==
    [][\A i \in Slots :
        (ops[i].kind = "gscan" /\ ops'[i].kind = "none" /\ ev'.fetch = "throw") =>
            /\ ev'.sent = {}
            /\ g'.lastReportedChanges = ops[i].cap.lastReportedChanges
            /\ (ops[i].cap = g =>
                    /\ g' = [g EXCEPT !.isFirstScan = FALSE]
                    /\ gLive' = gLive)]_vars

\* A timer-driven scan of a running worker failed at its fetch: the worker
\* still runs and its timer is live.
C15_Witness ==
    /\ ev.kind = "scan" /\ ev.fetch = "throw"
    /\ g.lastReportedChanges = ev.last
    /\ g.isRunning /\ g.scanTimer \in gLive
    /\ \A i \in Slots : ops[i].kind = "none"

\* C10 as stated: from the second scan after start() on, every symbol that is
\* due an alert is notified, whatever sendOnStartup is.
C10_SuppressedOnce ==
    (ev.kind \in ScanKinds /\ ev.fetch = "ok" /\ gHist.scans >= 2) =>
        AlertsToSend(ev.last, ev.batch) \subseteq SentSymbols

\* ------------------------------------------------- the orchestrator's claims
ActiveTicks == {t \in TickSlots : ticks[t].pc # "idle"}
AwaitingTicks == {t \in TickSlots : ticks[t].pc \in AwaitPcs}

\* C1: at most one poll callback is past the guard at any time, and a callback
\* fired while another is suspended at a worker's start() or stop() returns
\* without reading the phase or calling a worker.
C1_OneTickAtATime ==
    [][/\ Cardinality(ActiveTicks') <= 1
       /\ (ev'.kind = "tick" /\ AwaitingTicks # {}) =>
                UNCHANGED <<ticks, orch, g, gLive, gHist, m, mLive, mHist, ops, lastStart>>]_vars

\* The timer fired while a callback was awaiting a worker, and returned at the guard.
C1_Witness == ev.kind = "tick" /\ ev.noop /\ AwaitingTicks # {}

\* C2 as stated: orchestrator.stop() never rejects; right after the call no
\* poll timer of the orchestrator is live, and every registered worker whose
\* stop() does not throw is stopped, whether or not another worker's stop()
\* throws.
C2_StopIsolated ==
    /\ \A k \in StopSlots : stopOp[k].pc # "rejected"
    /\ (ev.kind = "orch_stop" =>
            /\ orch.live = {}
            /\ \A w \in Registered : ~StopThrows(w) => ~Running(w))

\* The part of C2 about the workers: no stop() call rejects, and right after a
\* call every registered worker whose stop() does not throw is stopped.
StopReachesWorkers ==
    /\ \A k \in StopSlots : stopOp[k].pc # "rejected"
    /\ (ev.kind = "orch_stop" =>
            \A w \in Registered : ~StopThrows(w) => ~Running(w))

\* stop() was called with the growth and the market scanner running: the
\* growth scanner's stop() threw and the market scanner, called after it, is
\* stopped.
StoppedDespiteThrow ==
    /\ ev.kind = "orch_stop" /\ "gstop" \in faults
    /\ g.isRunning /\ mHist.runs >= 1 /\ ~m.isRunning

\* C30: once orchestrator.stop() has resolved and no poll timer is live (none
\* was left over and start() has not been called again), in a run in which no
\* lifecycle method throws, no worker is running or starting.
C30_StoppedStaysStopped ==
    (/\ \E k \in StopSlots : stopOp[k].pc = "resolved"
     /\ \A k \in StopSlots : stopOp[k].pc # "waiting"
     /\ orch.live = {} /\ faults = {})
        => /\ \A w \in Workers : ~Running(w)
           /\ ~g.isStarting

\* Right after orchestrator.stop() has been called no poll timer is live.
C30_StopEndsPolling ==
    ev.kind = "orch_stop" => orch.live = {}

\* C3 as stated: when the growth scanner's start() or stop() throws in a tick
\* and the market scanner's methods do not throw, the market scanner is still
\* started or stopped in that tick: the tick leaves it running if it read the
\* Market phase and stopped if it did not.
C3_TickIsolated ==
    (/\ ev.kind = "tick_done" /\ lastTick.threw = "growth"
     /\ "mstart" \notin faults /\ "mstop" \notin faults) =>
        m.isRunning = lastTick.inMarket

\* C4 as stated: a tick calls a worker's start() only when it read the worker's
\* phase predicate as true and the worker's getState() reported isRunning =
\* false and isStarting = false at the call.
C4_StartOnlyWhenIdle ==
    \A w \in Workers :
        lastStart[w].called =>
            /\ lastStart[w].pred
            /\ lastStart[w].isRunning = "false"
            /\ lastStart[w].isStarting = "false"

\* The part of C4 the code keeps: start() is called only when the predicate
\* was read as true, getState() reported isRunning = false and did not report
\* isStarting = true, and no start() of that worker was in progress.
C4_NoDoubleStart ==
    \A w \in Workers :
        lastStart[w].called =>
            /\ lastStart[w].pred
            /\ lastStart[w].isRunning = "false"
            /\ lastStart[w].isStarting # "true"
            /\ ~lastStart[w].inProgress

\* C5 as stated: with workers that do not throw, along Premarket, Market,
\* Closed with a tick completed in each: the growth scanner's start() was
\* called in Premarket; by the time a Market tick has completed the market
\* scanner's start() was called, and it was called only with no start() or
\* stop() of the growth scanner pending; once a Closed tick has completed
\* neither worker is running.
C5_PhaseSequence ==
    faults = {} =>
        /\ (scn.at \in {"P1", "M0", "M1", "C0", "C1"} => scn.aStarted)
        /\ (scn.at \in {"M1", "C0", "C1"} => scn.bStarted)
        /\ ~scn.bEarly
        /\ (scn.at = "C1" => ~g.isRunning /\ ~m.isRunning)

\* The part of C5 about the order of the calls: the growth scanner's start()
\* in Premarket, the market scanner's start() in Market, after the tick's
\* await of the growth scanner's stop().
C5_CallOrder ==
    faults = {} =>
        /\ (scn.at \in {"P1", "M0", "M1", "C0", "C1"} => scn.aStarted)
        /\ (scn.at \in {"M1", "C0", "C1"} => scn.bStarted)
        /\ ~scn.bEarly

\* What each section of checkAndToggleServices compares isRunning with.
ShouldRun(w) ==
    IF w = "growth" THEN phase \in {"Premarket", "Overlap"}
    ELSE IF w = "market" THEN phase \in {"Market", "Overlap"} ELSE catWin # "off"

Settled == \A w \in Registered : Running(w) = ShouldRun(w)

\* C34 as stated: once the phase stops changing, after finitely many poll
\* ticks every registered worker's isRunning equals its phase predicate, and
\* stays so.
C34_SettlesOnPhase ==
    []<>(ev.kind = "phase") \/ <>[]Settled

\* While the growth worker runs, no state update leaves a symbol with a
\* recorded lastValue lower than the one it had before the update.
LastValueMonotone ==
    [][(g.isRunning /\ g'.isRunning /\ gHist'.runs = gHist.runs) =>
            \A s \in DOMAIN g.lastReportedChanges :
                /\ s \in DOMAIN g'.lastReportedChanges
                /\ g'.lastReportedChanges[s] >= g.lastReportedChanges[s]]_vars

\* C36 as stated: whenever the catalyst worker is stopped, the watchlist and
\* the TriggeredSet are empty.
C36_StoppedSetsEmpty ==
    ~cat.isRunning => (DOMAIN watchlist = {} /\ triggered = {})

\* C36, its second half: while the catalyst worker is stopped, no scan hands
\* a notification to the Notifier.
C36_StoppedSendsNothing ==
    [][(~cat.isRunning /\ ~cat'.isRunning) =>
            \A i \in CScanSlots : cscan'[i].pc = "send" => cscan'[i] = cscan[i]]_vars

\* C37 as stated: a scan of a running market worker compares its row only
\* with a prev entry recorded since the worker's latest start(), and skips a
\* triggered alert only for a cooldown recorded since then.
C37_RunUsesOwnData ==
    [][\A i \in ScanSlots :
        (/\ mscan[i].pc = "fetch" /\ mscan'[i].pc # "fetch"
         /\ mLast'.kind = "fetched" /\ mLast'.rankedUp
         /\ m.isRunning) =>
            /\ "X" \in DOMAIN prevStocks => prevStocks["X"].timestamp >= runAt
            /\ \A t \in mLast'.suppressed :
                    alertCooldowns[Key("X", t)] >= runAt]_vars

\* The part of C37 the code keeps: within the first run of the worker.
C37_FirstRunUsesOwnData ==
    [][\A i \in ScanSlots :
        (/\ mscan[i].pc = "fetch" /\ mscan'[i].pc # "fetch"
         /\ mLast'.kind = "fetched" /\ mLast'.rankedUp
         /\ m.isRunning /\ mHist.runs = 1) =>
            /\ "X" \in DOMAIN prevStocks => prevStocks["X"].timestamp >= runAt
            /\ \A t \in mLast'.suppressed :
                    alertCooldowns[Key("X", t)] >= runAt]_vars

\* C40 as stated: when a scan cycle ends, no cooldown record is older than
\* twice the cooldown window.
C40_CooldownsPruned ==
    [][\A i \in ScanSlots :
        (mscan[i].pc # "idle" /\ mscan'[i].pc = "idle") =>
            \A k \in DOMAIN alertCooldowns' :
                clock - alertCooldowns'[k] <= COOLDOWN_MS * 2]_vars

\* The part of C40 the code keeps: the same, of the cycles the interval runs.
C40_CooldownsPrunedByTimer ==
    [][\A i \in ScanSlots :
        (mscan[i].pc # "idle" /\ mscan'[i].pc = "idle" /\ mscan[i].start = 0) =>
            \A k \in DOMAIN alertCooldowns' :
                clock - alertCooldowns'[k] <= COOLDOWN_MS * 2]_vars

\* A market scan ran to its end in this step and replaced prevStocks.
ScanCompleted == mLast'.fin /\ \E i \in ScanSlots : mscan[i].pc # "idle" /\ mscan'[i].pc = "idle"

\* What C38 says of a completed scan: prevStocks holds exactly the symbols of
\* the scan's ranked lists, and a symbol it held before keeps its firstSeen
\* and has a timestamp no earlier than before.
SnapshotFollows ==
    ScanCompleted =>
        /\ DOMAIN prevStocks' =
                IF lastScanResult'.alpha # <<>> \/ lastScanResult'.bear # <<>>
                THEN {"X"} ELSE {}
        /\ \A s \in DOMAIN prevStocks \cap DOMAIN prevStocks' :
                /\ prevStocks'[s].firstSeen = prevStocks[s].firstSeen
                /\ prevStocks'[s].timestamp >= prevStocks[s].timestamp

\* C38 as stated: after each market scan that completes, prevStocks is the
\* snapshot of that scan's ranked lists, with firstSeen carried forward and
\* the timestamp advancing.
C38_SnapshotFollowsScan == [][SnapshotFollows]_vars

\* The part of C38 the code keeps, of scans that do not overlap: the same
\* statement under SpecAlertsSerial, and in it a symbol that left the ranked
\* lists is dropped from prevStocks.
C38_SnapshotFollowsScanSerial ==
    [][SnapshotFollows /\
       (ScanCompleted /\ lastScanResult'.alpha = <<>> /\ lastScanResult'.bear = <<>>
            => prevStocks' = [s \in {} |-> NoPrev])]_vars

\* C39: no step changes the entry of a symbol that is on the watchlist before
\* the step and after it, whatever values a setup scan fetched for it.
C39_WatchlistEntryKept ==
    [][\A s \in DOMAIN watchlist \cap DOMAIN watchlist' :
            watchlist'[s] = watchlist[s]]_vars

\* A setup scan has fetched a row for a symbol whose entry on the watchlist
\* holds another gap than the row's: the symbol was on the list before.
C39_Witness ==
    /\ cLast.kind = "fetched" /\ cLast.mode = "watchlist" /\ cLast.outcome = "ok"
    /\ \E i \in DOMAIN cLast.rows :
            /\ cLast.rows[i].symbol \in DOMAIN watchlist
            /\ watchlist[cLast.rows[i].symbol] # MapRow(cLast.rows[i].row).premarket_change

====
